---- MODULE Spec2Model ----
(***************************************************************************)
(* State-machine model of the Om Services admin panel stores: documents,   *)
(* customers, builders, tasks, attendance, the session store, the payroll  *)
(* calculator and the remote-store gateway.                                *)
(*                                                                         *)
(* JavaScript strings are sequences of one-character strings, so that      *)
(* toUpperCase, replace, includes, toString and padStart are computed.     *)
(* JavaScript objects are records; an absent (undefined) field is a field  *)
(* that is not in the record's DOMAIN, and an object spread {...a, ...b}   *)
(* is b @@ a.  Money amounts are whole numbers.                            *)
(***************************************************************************)
EXTENDS Integers, Sequences, FiniteSets, TLC

VARIABLES
    isConnected,        \* useDatabase().isConnected as seen by the entity stores
    now,                \* Date.now(), in clock ticks
    documents,          \* DocumentProvider state
    customers,          \* CustomerProvider state
    builders,           \* BuilderProvider state
    tasks,              \* TaskProvider state
    ops,                \* number of store operations performed so far
    last,               \* the operation performed last, its input and its result
    user,               \* AuthProvider: the signed-in user, NoUser when signed out
    allUsers,           \* AuthProvider: the users login() searches
    clock,              \* the wall clock read by the attendance store
    attendanceRecords,  \* AttendanceProvider state
    calcInput,          \* the arguments of calculateSalary
    salaryRecords,      \* SalaryProvider state
    staffConfigs,       \* SalaryProvider state
    payrollSummaries,   \* SalaryProvider state
    loading,            \* the loading flag of each entity store
    inflight,           \* store operations awaiting a gateway response
    gmailIsConnected,   \* GmailProvider: isConnected
    messages,           \* GmailProvider: messages
    apiConfig,          \* localStorage item 'apiConfig'
    svcConfig,          \* DatabaseService.config
    svcIsConnected,     \* DatabaseService.isConnected
    initPc,             \* where DatabaseProvider.initialize() stands
    queryPc,            \* where DatabaseService.query() stands
    query,              \* what the current query() call did and returned
    gatewayLog,         \* history: configurations loaded, and those tested with success
    remote              \* the tables of the remote store behind the gateway

storeVars == <<documents, customers, builders, tasks>>
authVars == <<user, allUsers>>
attendanceVars == <<clock, attendanceRecords>>
gatewayVars == <<apiConfig, svcConfig, svcIsConnected, initPc, queryPc, query,
                 gatewayLog, remote>>

salaryVars == <<salaryRecords, staffConfigs, payrollSummaries>>

loadVars == <<loading, inflight>>
gmailVars == <<gmailIsConnected, messages>>

vars == <<isConnected, now, ops, last, storeVars, authVars, attendanceVars,
          calcInput, gmailVars, loadVars, salaryVars, gatewayVars>>

\* the entity stores; each has a loading flag of its own
Stores == {"documents", "customers", "builders", "tasks", "salary", "attendance"}

finallyBlock_skipped(flags, store) == flags

\* finally { setLoading(false) }: a handler that runs to its end in one step
\* has set the flag of its store at entry and clears it here
finallyBlock(flags, store) == [flags EXCEPT ![store] = FALSE]

-----------------------------------------------------------------------------
(* Bounds of the model *)

MaxOps == 5
MaxRemoteOps == 3
MaxRemoteDocOps == 2
MaxOverlapOps == 4
MaxSalaryOps == 3
MaxLoadOps == 2
MaxNow == 2
TicksPerYear == 2
EpochYear == 2025

-----------------------------------------------------------------------------
(* JavaScript string and array primitives *)

LowerLetters == <<"a","b","c","d","e","f","g","h","i","j","k","l","m",
                  "n","o","p","q","r","s","t","u","v","w","x","y","z">>

UpperLetters == <<"A","B","C","D","E","F","G","H","I","J","K","L","M",
                  "N","O","P","Q","R","S","T","U","V","W","X","Y","Z">>

DigitChars == <<"0","1","2","3","4","5","6","7","8","9">>

IndexIn(letters, c) ==
    IF \E i \in 1..Len(letters) : letters[i] = c
    THEN CHOOSE i \in 1..Len(letters) : letters[i] = c
    ELSE 0

toUpperCase(s) ==
    [i \in 1..Len(s) |->
        IF IndexIn(LowerLetters, s[i]) > 0
        THEN UpperLetters[IndexIn(LowerLetters, s[i])]
        ELSE s[i]]

toLowerCase(s) ==
    [i \in 1..Len(s) |->
        IF IndexIn(UpperLetters, s[i]) > 0
        THEN LowerLetters[IndexIn(UpperLetters, s[i])]
        ELSE s[i]]

\* String.prototype.replace(c, ''): removes the first occurrence only
replaceFirst(s, c) ==
    IF \E i \in 1..Len(s) : s[i] = c
    THEN LET i == CHOOSE k \in 1..Len(s) : s[k] = c /\ \A j \in 1..(k-1) : s[j] # c
         IN  SubSeq(s, 1, i-1) \o SubSeq(s, i+1, Len(s))
    ELSE s

\* String.prototype.includes
includes(hay, needle) ==
    \E i \in 0..(Len(hay) - Len(needle)) : SubSeq(hay, i+1, i+Len(needle)) = needle

RECURSIVE toString(_)
toString(n) ==
    IF n < 10 THEN <<DigitChars[n+1]>>
    ELSE toString(n \div 10) \o <<DigitChars[(n % 10) + 1]>>

padStart(s, len, c) ==
    IF Len(s) >= len THEN s ELSE [i \in 1..(len - Len(s)) |-> c] \o s

\* Array.prototype.find as an index. hits[i] is the callback's result on the
\* i-th element; the result is the first index with a hit, 0 if there is none.
FindIndex(hits) ==
    IF \E i \in 1..Len(hits) : hits[i]
    THEN CHOOSE i \in 1..Len(hits) : hits[i] /\ \A j \in 1..(i-1) : ~hits[j]
    ELSE 0

\* Array.prototype.filter is SelectSeq

\* Array.prototype.includes
arrayIncludes(seq, x) == \E i \in 1..Len(seq) : seq[i] = x

Has(obj, field) == field \in DOMAIN obj

-----------------------------------------------------------------------------
(* The clock *)

getFullYear == EpochYear + (now \div TicksPerYear)

YearOfTick(t) == EpochYear + (t \div TicksPerYear)

Tick ==
    /\ now < MaxNow
    /\ now' = now + 1
    /\ UNCHANGED <<isConnected, documents, customers, builders, tasks, ops, last>>
    /\ UNCHANGED <<authVars, attendanceVars, calcInput, gmailVars, loadVars, salaryVars, gatewayVars>>

-----------------------------------------------------------------------------
(* Customer store, local mode *)

generateCustomerId ==
    <<"C","U","S","T">> \o padStart(toString(Len(customers) + 1), 3, "0")

\* the customer list after createCustomer(data) and the customer it returns
newCustomer(data) ==
    data @@ [id |-> generateCustomerId, name |-> <<>>, phone |-> <<>>,
             documents |-> <<>>]

getCustomerIndex(id) ==
    FindIndex([i \in 1..Len(customers) |-> customers[i].id = id])

getCustomerByPhoneIndex(phone) ==
    FindIndex([i \in 1..Len(customers) |-> customers[i].phone = phone])

\* the customer list after updateCustomer(id, data)
updateCustomerList(id, data) ==
    [i \in 1..Len(customers) |->
        IF customers[i].id = id THEN data @@ customers[i] ELSE customers[i]]

\* the customer list after addDocumentToCustomer(customerId, documentId)
addDocumentToCustomerList(customerId, documentId) ==
    LET i == getCustomerIndex(customerId) IN
    IF i > 0 /\ ~arrayIncludes(customers[i].documents, documentId)
    THEN updateCustomerList(customerId,
             [documents |-> Append(customers[i].documents, documentId)])
    ELSE customers

CreateCustomer(data) ==
    /\ ops < MaxOps
    /\ ops' = ops + 1
    /\ ~isConnected
    /\ customers' = Append(customers, newCustomer(data))
    /\ last' = [op |-> "createCustomer"]
    /\ UNCHANGED <<isConnected, now, documents, builders, tasks>>
    /\ UNCHANGED <<authVars, attendanceVars, calcInput, gmailVars, loadVars, salaryVars, gatewayVars>>

DeleteCustomer_writesThrough(id) ==
    /\ ops < MaxOps
    /\ ops' = ops + 1
    /\ LET P(c) == c.id # id IN customers' = SelectSeq(customers, P)
    /\ LET Q(row) == toString(row.id) # id
       IN  remote' = [remote EXCEPT !.customers = SelectSeq(@, Q)]
    /\ last' = [op |-> "deleteCustomer", id |-> id, calls |-> <<>>]
    /\ UNCHANGED <<isConnected, now, documents, builders, tasks>>
    /\ UNCHANGED <<authVars, attendanceVars, calcInput, gmailVars, loadVars, salaryVars>>
    /\ UNCHANGED <<apiConfig, svcConfig, svcIsConnected, initPc, queryPc, query, gatewayLog>>

DeleteCustomer(id) ==
    /\ ops < MaxOps
    /\ ops' = ops + 1
    /\ LET P(c) == c.id # id IN customers' = SelectSeq(customers, P)
    /\ last' = [op |-> "deleteCustomer", id |-> id, calls |-> <<>>]
    /\ UNCHANGED <<isConnected, now, documents, builders, tasks>>
    /\ UNCHANGED <<authVars, attendanceVars, calcInput, gmailVars, loadVars, salaryVars, gatewayVars>>

-----------------------------------------------------------------------------
(* Builder store, local mode *)

generateBuilderId ==
    <<"B","L","D">> \o padStart(toString(Len(builders) + 1), 3, "0")

newBuilder(data) ==
    data @@ [id |-> generateBuilderId, name |-> <<>>, documents |-> <<>>]

getBuilderIndex(id) ==
    FindIndex([i \in 1..Len(builders) |-> builders[i].id = id])

getBuilderByNameIndex(name) ==
    FindIndex([i \in 1..Len(builders) |->
                  includes(toLowerCase(builders[i].name), toLowerCase(name))])

updateBuilderList(id, data) ==
    [i \in 1..Len(builders) |->
        IF builders[i].id = id THEN data @@ builders[i] ELSE builders[i]]

addDocumentToBuilderList(builderId, documentId) ==
    LET i == getBuilderIndex(builderId) IN
    IF i > 0 /\ ~arrayIncludes(builders[i].documents, documentId)
    THEN updateBuilderList(builderId,
             [documents |-> Append(builders[i].documents, documentId)])
    ELSE builders

CreateBuilder(data) ==
    /\ ops < MaxOps
    /\ ops' = ops + 1
    /\ ~isConnected
    /\ builders' = Append(builders, newBuilder(data))
    /\ last' = [op |-> "createBuilder"]
    /\ UNCHANGED <<isConnected, now, documents, customers, tasks>>
    /\ UNCHANGED <<authVars, attendanceVars, calcInput, gmailVars, loadVars, salaryVars, gatewayVars>>

DeleteBuilder(id) ==
    /\ ops < MaxOps
    /\ ops' = ops + 1
    /\ LET P(b) == b.id # id IN builders' = SelectSeq(builders, P)
    /\ last' = [op |-> "deleteBuilder", id |-> id, calls |-> <<>>]
    /\ UNCHANGED <<isConnected, now, documents, customers, tasks>>
    /\ UNCHANGED <<authVars, attendanceVars, calcInput, gmailVars, loadVars, salaryVars, gatewayVars>>

-----------------------------------------------------------------------------
(* Document store, local mode *)

TypeAgreement == <<"a","g","r","e","e","m","e","n","t">>
TypeLeaseDeed == <<"l","e","a","s","e","_","d","e","e","d">>
TypeSaleDeed == <<"s","a","l","e","_","d","e","e","d">>
TypeMutation == <<"m","u","t","a","t","i","o","n">>
TypePartitionDeed == <<"p","a","r","t","i","t","i","o","n","_","d","e","e","d">>
TypeGiftDeed == <<"g","i","f","t","_","d","e","e","d">>
DocumentTypes == {TypeAgreement, TypeLeaseDeed, TypeSaleDeed, TypeMutation,
                  TypePartitionDeed, TypeGiftDeed}

NameA == <<"A">>
NameC == <<"C">>
Phone123 == <<"1","2","3">>
Phone9 == <<"9">>
BuilderB == <<"B">>
BuilderLowerB == <<"b">>
BuilderAB == <<"A","B">>

documentCount_allTypes(type) == Len(documents) + 1

documentCount(type) ==
    LET P(d) == d.documentType = type IN Len(SelectSeq(documents, P)) + 1

generateDocumentNumber(type) ==
    LET prefix == replaceFirst(toUpperCase(type), "_")
        year == getFullYear
        count == documentCount(type)
    IN  prefix \o <<"/">> \o toString(year) \o <<"/">> \o padStart(toString(count), 3, "0")

\* data.x || fallback for a string field
OrElse(data, field, fallback) ==
    IF Has(data, field) /\ data[field] # <<>> THEN data[field] ELSE fallback

newDocument(data) ==
    data @@ [id |-> <<"D","O","C">> \o toString(now),
             documentNumber |-> OrElse(data, "documentNumber",
                                       generateDocumentNumber(data.documentType)),
             customerName |-> <<>>,
             customerPhone |-> <<>>,
             builderName |-> <<>>,
             status |-> "pending_collection",
             createdAt |-> now]

\* the customer list after the "auto-create or update customer" step
linkCustomer(doc) ==
    IF doc.customerName # <<>> /\ doc.customerPhone # <<>>
    THEN LET i == getCustomerByPhoneIndex(doc.customerPhone) IN
         IF i = 0
         THEN Append(customers, newCustomer([name |-> doc.customerName,
                                             phone |-> doc.customerPhone,
                                             documents |-> <<doc.id>>]))
         ELSE addDocumentToCustomerList(customers[i].id, doc.id)
    ELSE customers

linkBuilder_never(doc) == builders

\* the builder list after the "auto-create or update builder" step
linkBuilder(doc) ==
    IF doc.builderName # <<>>
    THEN LET i == getBuilderByNameIndex(doc.builderName) IN
         IF i = 0
         THEN Append(builders, newBuilder([name |-> doc.builderName,
                                           documents |-> <<doc.id>>]))
         ELSE addDocumentToBuilderList(builders[i].id, doc.id)
    ELSE builders

phoneCount(phone) == Cardinality({i \in 1..Len(customers) : customers[i].phone = phone})

CreateDocument(data) ==
    /\ ops < MaxOps
    /\ ops' = ops + 1
    /\ ~isConnected
    /\ LET doc == newDocument(data) IN
       /\ customers' = linkCustomer(doc)
       /\ builders' = linkBuilder(doc)
       /\ documents' = Append(documents, doc)
       /\ last' = [op |-> "createDocument", data |-> data, ret |-> doc,
                   preEmpty |-> (documents = <<>> /\ customers = <<>> /\ builders = <<>>),
                   prePhoneCount |-> phoneCount(doc.customerPhone), at |-> now]
    /\ UNCHANGED <<isConnected, now, tasks>>
    /\ UNCHANGED <<authVars, attendanceVars, calcInput, gmailVars, loadVars, salaryVars, gatewayVars>>

UpdateDocument(id, data) ==
    /\ ops < MaxOps
    /\ ops' = ops + 1
    /\ ~isConnected
    /\ documents' = [i \in 1..Len(documents) |->
                        IF documents[i].id = id THEN data @@ documents[i]
                        ELSE documents[i]]
    /\ last' = [op |-> "updateDocument", calls |-> <<>>]
    /\ UNCHANGED <<isConnected, now, customers, builders, tasks>>
    /\ UNCHANGED <<authVars, attendanceVars, calcInput, gmailVars, loadVars, salaryVars, gatewayVars>>

DeleteDocument(id) ==
    /\ ops < MaxOps
    /\ ops' = ops + 1
    /\ LET P(d) == d.id # id IN documents' = SelectSeq(documents, P)
    /\ last' = [op |-> "deleteDocument", id |-> id, calls |-> <<>>]
    /\ UNCHANGED <<isConnected, now, customers, builders, tasks>>
    /\ UNCHANGED <<authVars, attendanceVars, calcInput, gmailVars, loadVars, salaryVars, gatewayVars>>

DocumentInputs ==
    { [customerName |-> NameA, customerPhone |-> Phone123, builderName |-> BuilderB,
       documentType |-> TypeAgreement],
      [customerName |-> NameC, customerPhone |-> Phone9, builderName |-> BuilderLowerB,
       documentType |-> TypeSaleDeed],
      [customerPhone |-> Phone9, builderName |-> BuilderAB, documentType |-> TypeAgreement] }

DocumentUpdates == { [status |-> "collected"] }

\* createDocument inputs of which one carries a status of its own
StatusInputs ==
    { [customerName |-> NameA, customerPhone |-> Phone123, builderName |-> BuilderB,
       documentType |-> TypeAgreement],
      [customerName |-> NameC, customerPhone |-> Phone9, builderName |-> BuilderB,
       documentType |-> TypeSaleDeed, status |-> "collected"] }

CustomerInputs == { [name |-> NameC, phone |-> Phone123] }

CustomerUpdates == { [name |-> NameA] }

BuilderUpdates == { [name |-> BuilderAB] }

BuilderInputs == { [name |-> BuilderAB] }

DocumentIds == {documents[i].id : i \in 1..Len(documents)}
CustomerIds == {customers[i].id : i \in 1..Len(customers)}
BuilderIds == {builders[i].id : i \in 1..Len(builders)}


-----------------------------------------------------------------------------
(* Overlapping creates, local mode.  Two handlers created by the same render *)
(* read the lists of that render (closure); each state update is a function  *)
(* of the list at the time it is applied (prev), and the updates of the two  *)
(* calls are applied in the order the calls were made.                       *)

\* newCustomer of createCustomer(data), with the list the handler closed over
customerIn(closure, data) ==
    data @@ [id |-> <<"C","U","S","T">> \o padStart(toString(Len(closure) + 1), 3, "0"),
             name |-> <<>>, phone |-> <<>>, documents |-> <<>>]

\* newBuilder of createBuilder(data), with the list the handler closed over
builderIn(closure, data) ==
    data @@ [id |-> <<"B","L","D">> \o padStart(toString(Len(closure) + 1), 3, "0"),
             name |-> <<>>, documents |-> <<>>]

\* addDocumentToCustomer / addDocumentToBuilder: the record is looked up in the
\* closure, the merge is applied to prev
addDocumentIn(closure, prev, id, documentId) ==
    LET i == FindIndex([k \in 1..Len(closure) |-> closure[k].id = id]) IN
    IF i > 0 /\ ~arrayIncludes(closure[i].documents, documentId)
    THEN [k \in 1..Len(prev) |->
             IF prev[k].id = id
             THEN [documents |-> Append(closure[i].documents, documentId)] @@ prev[k]
             ELSE prev[k]]
    ELSE prev

linkCustomerIn(closure, prev, doc) ==
    IF doc.customerName # <<>> /\ doc.customerPhone # <<>>
    THEN LET i == FindIndex([k \in 1..Len(closure) |->
                                closure[k].phone = doc.customerPhone]) IN
         IF i = 0
         THEN Append(prev, customerIn(closure, [name |-> doc.customerName,
                                                phone |-> doc.customerPhone,
                                                documents |-> <<doc.id>>]))
         ELSE addDocumentIn(closure, prev, closure[i].id, doc.id)
    ELSE prev

linkBuilderIn(closure, prev, doc) ==
    IF doc.builderName # <<>>
    THEN LET i == FindIndex([k \in 1..Len(closure) |->
                                includes(toLowerCase(closure[k].name),
                                         toLowerCase(doc.builderName))]) IN
         IF i = 0
         THEN Append(prev, builderIn(closure, [name |-> doc.builderName,
                                               documents |-> <<doc.id>>]))
         ELSE addDocumentIn(closure, prev, closure[i].id, doc.id)
    ELSE prev

\* two createCustomer calls made from the same render
OverlappedCreateCustomers(data1, data2) ==
    /\ ops + 2 <= MaxOverlapOps
    /\ ops' = ops + 2
    /\ ~isConnected
    /\ customers' = Append(Append(customers, customerIn(customers, data1)),
                           customerIn(customers, data2))
    /\ last' = [op |-> "overlappedCreateCustomers"]
    /\ UNCHANGED <<isConnected, now, documents, builders, tasks>>
    /\ UNCHANGED <<authVars, attendanceVars, calcInput, gmailVars, loadVars, salaryVars, gatewayVars>>

\* two createDocument calls made from the same render; the second reads the
\* clock at t2
OverlappedCreateDocuments(data1, data2, t2) ==
    /\ ops + 2 <= MaxOverlapOps
    /\ ops' = ops + 2
    /\ ~isConnected
    /\ t2 \in {now, now + 1} /\ t2 <= MaxNow
    /\ now' = t2
    /\ LET doc1 == newDocument(data1)
           doc2 == [newDocument(data2) EXCEPT !.id = <<"D","O","C">> \o toString(t2),
                                              !.createdAt = t2]
       IN  /\ customers' = linkCustomerIn(customers,
                                          linkCustomerIn(customers, customers, doc1), doc2)
           /\ builders' = linkBuilderIn(builders,
                                        linkBuilderIn(builders, builders, doc1), doc2)
           /\ documents' = Append(Append(documents, doc1), doc2)
           /\ last' = [op |-> "overlappedCreateDocuments", first |-> doc1,
                       second |-> doc2]
    /\ UNCHANGED <<isConnected, tasks>>
    /\ UNCHANGED <<authVars, attendanceVars, calcInput, gmailVars, loadVars, salaryVars, gatewayVars>>

-----------------------------------------------------------------------------
(* Task store, local mode *)

generateTaskId ==
    <<"T","A","S","K">> \o padStart(toString(Len(tasks) + 1), 3, "0")

newTask(data) ==
    data @@ [id |-> generateTaskId,
             title |-> <<>>,
             priority |-> "medium",
             status |-> "pending",
             createdAt |-> now]

CreateTask(data) ==
    /\ ops < MaxOps
    /\ ops' = ops + 1
    /\ ~isConnected
    /\ tasks' = Append(tasks, newTask(data))
    /\ last' = [op |-> "createTask"]
    /\ UNCHANGED <<isConnected, now, documents, customers, builders>>
    /\ UNCHANGED <<authVars, attendanceVars, calcInput, gmailVars, loadVars, salaryVars, gatewayVars>>

mockTaskTemplates ==
    << [id |-> <<"T","E","M","P","L","A","T","E","0","0","1">>,
        name |-> <<"D","o","c","u","m","e","n","t"," ","C","o","l","l","e","c","t","i","o","n">>,
        type |-> "document_collection",
        defaultPriority |-> "medium"] >>

getTemplateIndex_firstTemplate(templateId) ==
    IF mockTaskTemplates = <<>> THEN 0 ELSE 1

\* taskTemplates.find(t => t.id === templateId) as an index, 0 when undefined
getTemplateIndex(templateId) ==
    FindIndex([i \in 1..Len(mockTaskTemplates) |-> mockTaskTemplates[i].id = templateId])

\* createTaskFromTemplate(templateId, overrides) in local mode: the lookup
\* throws before createTask is called and before loading is touched
CreateTaskFromTemplate(templateId, overrides) ==
    /\ ops < MaxOps
    /\ ops' = ops + 1
    /\ ~isConnected
    /\ LET i == getTemplateIndex(templateId) IN
       IF i = 0
       THEN /\ last' = [op |-> "createTaskFromTemplate", templateId |-> templateId,
                        threw |-> TRUE, message |-> "Template not found"]
            /\ UNCHANGED <<tasks, loading>>
       ELSE LET template == mockTaskTemplates[i]
                data == overrides @@ [title |-> template.name, type |-> template.type,
                                      priority |-> template.defaultPriority]
            IN  /\ tasks' = Append(tasks, newTask(data))
                /\ last' = [op |-> "createTaskFromTemplate", templateId |-> templateId,
                            threw |-> FALSE, ret |-> newTask(data)]
                /\ loading' = finallyBlock(loading, "tasks")
    /\ UNCHANGED <<isConnected, now, documents, customers, builders>>
    /\ UNCHANGED <<authVars, attendanceVars, calcInput, gmailVars, inflight, salaryVars, gatewayVars>>

TemplateIds ==
    { <<"T","E","M","P","L","A","T","E","0","0","1">>,
      <<"T","E","M","P","L","A","T","E","0","0","9">> }

TemplateOverrides == { [priority |-> "high"], [status |-> "in_progress"] }

UpdateTask(id, data) ==
    /\ ops < MaxOps
    /\ ops' = ops + 1
    /\ tasks' = [i \in 1..Len(tasks) |->
                    IF tasks[i].id = id THEN data @@ tasks[i] ELSE tasks[i]]
    /\ last' = [op |-> "updateTask", calls |-> <<>>]
    /\ UNCHANGED <<isConnected, now, documents, customers, builders>>
    /\ UNCHANGED <<authVars, attendanceVars, calcInput, gmailVars, loadVars, salaryVars, gatewayVars>>

DeleteTask(id) ==
    /\ ops < MaxOps
    /\ ops' = ops + 1
    /\ LET P(t) == t.id # id IN tasks' = SelectSeq(tasks, P)
    /\ last' = [op |-> "deleteTask", id |-> id, calls |-> <<>>]
    /\ UNCHANGED <<isConnected, now, documents, customers, builders>>
    /\ UNCHANGED <<authVars, attendanceVars, calcInput, gmailVars, loadVars, salaryVars, gatewayVars>>

TaskInputs == { [title |-> <<"T">>], [title |-> <<"U">>, priority |-> "high"] }

TaskUpdates == { [status |-> "completed"] }

TaskIds == {tasks[i].id : i \in 1..Len(tasks)}

-----------------------------------------------------------------------------
(* Session store *)

NoUser == [signedIn |-> FALSE]

Perm(module, action, granted) == [module |-> module, action |-> action, granted |-> granted]

MainAdmin ==
    [id |-> "1", email |-> "admin@omservices.com", role |-> "main_admin",
     isActive |-> TRUE,
     permissions |-> <<Perm("documents", "create", TRUE), Perm("documents", "read", TRUE),
                       Perm("documents", "update", TRUE), Perm("documents", "delete", TRUE),
                       Perm("payments", "create", TRUE), Perm("payments", "read", TRUE),
                       Perm("payments", "update", TRUE), Perm("users", "create", TRUE),
                       Perm("users", "read", TRUE), Perm("users", "update", TRUE),
                       Perm("salary", "read", TRUE), Perm("salary", "manage", TRUE)>>]

ChallanStaff ==
    [id |-> "2", email |-> "challan@omservices.com", role |-> "challan_staff",
     isActive |-> TRUE,
     permissions |-> <<Perm("documents", "read", TRUE), Perm("challans", "create", TRUE),
                       Perm("challans", "update", TRUE), Perm("payments", "read", TRUE)>>]

mockUsers == <<MainAdmin, ChallanStaff>>

\* users kept under 'om-services-users': any role, any permission list
StoredStaff ==
    [id |-> "3", email |-> "staff@omservices.com", role |-> "field_collection_staff",
     isActive |-> TRUE,
     permissions |-> <<Perm("documents", "read", TRUE), Perm("documents", "update", FALSE),
                       Perm("salary", "read", FALSE), Perm("salary", "read", TRUE)>>]

StoredAdmin ==
    [id |-> "4", email |-> "owner@omservices.com", role |-> "main_admin",
     isActive |-> TRUE, permissions |-> <<>>]

StoredInactive ==
    [id |-> "5", email |-> "old@omservices.com", role |-> "challan_staff",
     isActive |-> FALSE, permissions |-> <<Perm("documents", "read", TRUE)>>]

storedUsers == <<StoredStaff, StoredAdmin, StoredInactive>>

Emails == {"admin@omservices.com", "challan@omservices.com", "staff@omservices.com",
           "owner@omservices.com", "old@omservices.com"}
Passwords == {"password123", "letmein"}
Modules == {"documents", "payments", "challans", "users", "salary"}
PermActions == {"create", "read", "update", "delete", "manage"}

hasPermission_ignoresGranted(module, action) ==
    IF user = NoUser THEN FALSE
    ELSE IF user.role = "main_admin" THEN TRUE
    ELSE \E i \in 1..Len(user.permissions) :
            /\ user.permissions[i].module = module
            /\ user.permissions[i].action = action

hasPermission(module, action) ==
    IF user = NoUser THEN FALSE
    ELSE IF user.role = "main_admin" THEN TRUE
    ELSE \E i \in 1..Len(user.permissions) :
            /\ user.permissions[i].module = module
            /\ user.permissions[i].action = action
            /\ user.permissions[i].granted

\* the 'storage' / 'usersUpdated' listener
handleStorageChange ==
    /\ allUsers' = mockUsers \o storedUsers
    /\ UNCHANGED <<isConnected, now, ops, last, storeVars, user, attendanceVars,
                   calcInput, gmailVars, loadVars, salaryVars, gatewayVars>>

login(email, password) ==
    /\ LET found == FindIndex([i \in 1..Len(allUsers) |->
                                  allUsers[i].email = email /\ allUsers[i].isActive])
       IN  IF found > 0 /\ password = "password123"
           THEN /\ user' = allUsers[found]
                /\ last' = [op |-> "login", ret |-> TRUE]
           ELSE /\ user' = user
                /\ last' = [op |-> "login", ret |-> FALSE]
    /\ UNCHANGED <<isConnected, now, ops, storeVars, allUsers, attendanceVars,
                   calcInput, gmailVars, loadVars, salaryVars, gatewayVars>>

logout ==
    /\ user' = NoUser
    /\ last' = [op |-> "logout"]
    /\ UNCHANGED <<isConnected, now, ops, storeVars, allUsers, attendanceVars,
                   calcInput, gmailVars, loadVars, salaryVars, gatewayVars>>

CheckPermission(module, action) ==
    /\ last' = [op |-> "hasPermission", module |-> module, action |-> action,
                ret |-> hasPermission(module, action)]
    /\ UNCHANGED <<isConnected, now, ops, storeVars, authVars, attendanceVars,
                   calcInput, gmailVars, loadVars, salaryVars, gatewayVars>>

-----------------------------------------------------------------------------
(* Attendance store, local mode.  A Date is a number of seconds; hours are    *)
(* kept in units of 1/3600 hour, so that (t1 - t0)/3600 - br/60 is exact.     *)

SecondsPerDay == 24 * 60 * 60
UnitsPerHour == 60 * 60
workingHoursPerDay == 8
lateThresholdMinutes == 15
defaultBreakMinutes == 60
expectedStartHour == 9

MaxDay == 1
MaxAttendanceOps == 4
ClockTimes == {32400, 34200, 70210}   \* 09:00:00, 09:30:00, 19:30:10

clockNow == clock.day * SecondsPerDay + clock.sec

\* new Date(y, m, d) of a Date, and Date.toDateString(): the calendar day
dayOf(t) == t \div SecondsPerDay

generateAttendanceId ==
    <<"A","T","T">> \o padStart(toString(Len(attendanceRecords) + 1), 3, "0")

\* Math.round((totalMinutes / 60) * 100) / 100 of an elapsed time in seconds
roundedHours(elapsedSec) == ((2 * elapsedSec + 36) \div 72) * 36

\* existingRecord.breakTime || 60, in minutes
breakTimeOf(record) ==
    IF Has(record, "breakTime") /\ record.breakTime # 0
    THEN record.breakTime ELSE defaultBreakMinutes

maxOf(a, b) == IF a >= b THEN a ELSE b

recordOfDay(userId, day) ==
    FindIndex([i \in 1..Len(attendanceRecords) |->
                  /\ attendanceRecords[i].userId = userId
                  /\ attendanceRecords[i].date = day])

openRecordOfDay(userId, day) ==
    FindIndex([i \in 1..Len(attendanceRecords) |->
                  /\ attendanceRecords[i].userId = userId
                  /\ attendanceRecords[i].date = day
                  /\ Has(attendanceRecords[i], "clockInTime")
                  /\ ~Has(attendanceRecords[i], "clockOutTime")])

isLate ==
    clockNow > dayOf(clockNow) * SecondsPerDay + expectedStartHour * 3600
               + lateThresholdMinutes * 60

clockIn ==
    /\ ops < MaxAttendanceOps
    /\ ops' = ops + 1
    /\ ~isConnected
    /\ IF user = NoUser
       THEN /\ last' = [op |-> "clockIn", threw |-> "User not authenticated"]
            /\ UNCHANGED attendanceRecords
       ELSE LET i == recordOfDay(user.id, dayOf(clockNow)) IN
            IF i > 0 /\ Has(attendanceRecords[i], "clockInTime")
            THEN /\ last' = [op |-> "clockIn", threw |-> "Already clocked in today"]
                 /\ UNCHANGED attendanceRecords
            ELSE LET newRecord == [id |-> generateAttendanceId,
                                   userId |-> user.id,
                                   date |-> dayOf(clockNow),
                                   clockInTime |-> clockNow,
                                   status |-> IF isLate THEN "late" ELSE "present"]
                 IN  /\ attendanceRecords' = Append(attendanceRecords, newRecord)
                     /\ last' = [op |-> "clockIn", ret |-> newRecord]
    /\ loading' = IF user = NoUser THEN loading ELSE finallyBlock(loading, "attendance")
    /\ UNCHANGED <<isConnected, now, storeVars, authVars, clock, calcInput, gmailVars, inflight,
                   salaryVars, gatewayVars>>

clockOut ==
    /\ ops < MaxAttendanceOps
    /\ ops' = ops + 1
    /\ ~isConnected
    /\ IF user = NoUser
       THEN /\ last' = [op |-> "clockOut", threw |-> "User not authenticated"]
            /\ UNCHANGED attendanceRecords
       ELSE LET i == openRecordOfDay(user.id, dayOf(clockNow)) IN
            IF i = 0
            THEN /\ last' = [op |-> "clockOut",
                             threw |-> "No active clock-in found for today"]
                 /\ UNCHANGED attendanceRecords
            ELSE LET existingRecord == attendanceRecords[i]
                     totalHours == roundedHours(clockNow - existingRecord.clockInTime)
                     breakTime == breakTimeOf(existingRecord)
                     workingHours == totalHours - breakTime * (UnitsPerHour \div 60)
                     overtime == maxOf(0, workingHours - workingHoursPerDay * UnitsPerHour)
                     updatedRecord == [clockOutTime |-> clockNow,
                                       totalHours |-> workingHours,
                                       overtime |-> overtime] @@ existingRecord
                 IN  /\ attendanceRecords' =
                            [k \in 1..Len(attendanceRecords) |->
                                IF attendanceRecords[k].id = existingRecord.id
                                THEN updatedRecord ELSE attendanceRecords[k]]
                     /\ last' = [op |-> "clockOut", pre |-> existingRecord,
                                 ret |-> updatedRecord]
    /\ loading' = IF user = NoUser THEN loading ELSE finallyBlock(loading, "attendance")
    /\ UNCHANGED <<isConnected, now, storeVars, authVars, clock, calcInput, gmailVars, inflight,
                   salaryVars, gatewayVars>>

markAttendance(userId, date, status) ==
    /\ ops < MaxAttendanceOps
    /\ ops' = ops + 1
    /\ LET i == recordOfDay(userId, dayOf(date)) IN
       IF i > 0
       THEN LET updatedRecord == [status |-> status] @@ attendanceRecords[i] IN
            /\ attendanceRecords' =
                   [k \in 1..Len(attendanceRecords) |->
                       IF attendanceRecords[k].id = attendanceRecords[i].id
                       THEN updatedRecord ELSE attendanceRecords[k]]
            /\ last' = [op |-> "markAttendance", ret |-> updatedRecord]
       ELSE LET newRecord == [id |-> generateAttendanceId, userId |-> userId,
                              date |-> dayOf(date), status |-> status]
            IN  /\ attendanceRecords' = Append(attendanceRecords, newRecord)
                /\ last' = [op |-> "markAttendance", ret |-> newRecord]
    /\ UNCHANGED <<isConnected, now, storeVars, authVars, clock, calcInput, gmailVars, loadVars, salaryVars, gatewayVars>>

updateAttendance(id, data) ==
    /\ ops < MaxAttendanceOps
    /\ ops' = ops + 1
    /\ attendanceRecords' =
           [k \in 1..Len(attendanceRecords) |->
               IF attendanceRecords[k].id = id THEN data @@ attendanceRecords[k]
               ELSE attendanceRecords[k]]
    /\ last' = [op |-> "updateAttendance"]
    /\ UNCHANGED <<isConnected, now, storeVars, authVars, clock, calcInput, gmailVars, loadVars, salaryVars, gatewayVars>>

\* time passes: later the same day, or the next day
AdvanceClock ==
    /\ \/ \E sec \in ClockTimes : sec > clock.sec /\ clock' = [clock EXCEPT !.sec = sec]
       \/ /\ clock.day < MaxDay
          /\ \E sec \in ClockTimes : clock' = [day |-> clock.day + 1, sec |-> sec]
    /\ UNCHANGED <<isConnected, now, ops, last, storeVars, authVars, attendanceRecords,
                   calcInput, gmailVars, loadVars, salaryVars, gatewayVars>>

AttendanceUserIds == {"2", "3"}
AttendanceStatuses == {"absent"}
AttendanceUpdates == { [breakTime |-> 0], [breakTime |-> 30] }
AttendanceIds == {attendanceRecords[i].id : i \in 1..Len(attendanceRecords)}
AttendanceLogins == {"challan@omservices.com"}

-----------------------------------------------------------------------------
(* Payroll calculator *)

\* Array.prototype.reduce((sum, x) => sum + x.amount, 0)
RECURSIVE reduceAmounts(_)
reduceAmounts(items) ==
    IF items = <<>> THEN 0
    ELSE reduceAmounts(SubSeq(items, 1, Len(items) - 1)) + items[Len(items)].amount

calculateSalary_noBonus(config, overtimeHours, bonus) ==
    LET totalAllowances == reduceAmounts(config.allowances)
        totalDeductions == reduceAmounts(config.deductions)
        overtimeAmount == overtimeHours * config.overtimeRate
        grossSalary == config.baseSalary + totalAllowances + overtimeAmount
        netSalary == grossSalary - totalDeductions
    IN  [gross |-> grossSalary, net |-> netSalary]

calculateSalary(config, overtimeHours, bonus) ==
    LET totalAllowances == reduceAmounts(config.allowances)
        totalDeductions == reduceAmounts(config.deductions)
        overtimeAmount == overtimeHours * config.overtimeRate
        grossSalary == config.baseSalary + totalAllowances + overtimeAmount + bonus
        netSalary == grossSalary - totalDeductions
    IN  [gross |-> grossSalary, net |-> netSalary]

\* a call of calculateSalary; an argument left out takes its default, 0
CalculateSalary ==
    /\ last.op # "calculateSalary"
    /\ Has(calcInput, "config")
    /\ LET overtimeHours == IF Has(calcInput, "overtimeHours")
                            THEN calcInput.overtimeHours ELSE 0
           bonus == IF Has(calcInput, "bonus") THEN calcInput.bonus ELSE 0
       IN  last' = [op |-> "calculateSalary",
                    ret |-> calculateSalary(calcInput.config, overtimeHours, bonus)]
    /\ UNCHANGED <<isConnected, now, ops, storeVars, authVars, attendanceVars,
                   calcInput, gmailVars, loadVars, salaryVars, gatewayVars>>

MaxItems == 2
Amounts == {0, 250, 1200}
BaseSalaries == {0, 15000}
OvertimeRates == {0, 150}
OvertimeHourValues == {0, 3}
Bonuses == {0, 700}

AmountLists ==
    UNION {[1..n -> {[amount |-> a] : a \in Amounts}] : n \in 0..MaxItems}

SalaryConfigs ==
    [baseSalary : BaseSalaries, allowances : AmountLists, deductions : AmountLists,
     overtimeRate : OvertimeRates]

CalcInputs ==
    [config : SalaryConfigs, overtimeHours : OvertimeHourValues, bonus : Bonuses]
    \cup [config : SalaryConfigs, overtimeHours : OvertimeHourValues]
    \cup [config : SalaryConfigs]

-----------------------------------------------------------------------------
(* Salary store, local mode.  The model's attendance days all lie in the     *)
(* pay period December 2024; overtime is counted in whole hours.             *)

Amount(a) == [amount |-> a]

December2024 == [month |-> 12, year |-> 2024]
January2025 == [month |-> 1, year |-> 2025]

mockSalaryRecords ==
    << [id |-> <<"S","A","L","0","0","1">>, userId |-> "2", baseSalary |-> 45000,
        allowances |-> <<Amount(15000), Amount(3000)>>,
        deductions |-> <<Amount(5000), Amount(2250)>>,
        overtime |-> <<>>, bonus |-> 5000,
        grossSalary |-> 68000, netSalary |-> 60750,
        payPeriod |-> December2024, status |-> "paid"],
       [id |-> <<"S","A","L","0","0","2">>, userId |-> "3", baseSalary |-> 35000,
        allowances |-> <<Amount(10000), Amount(2500)>>,
        deductions |-> <<Amount(3000), Amount(1750)>>,
        overtime |-> <<[hours |-> 4, rate |-> 200, amount |-> 800]>>, bonus |-> 2000,
        grossSalary |-> 50300, netSalary |-> 45550,
        payPeriod |-> December2024, status |-> "approved"] >>

mockStaffConfigs ==
    << [id |-> <<"C","O","N","F","I","G","0","0","1">>, userId |-> "2",
        baseSalary |-> 45000,
        allowances |-> <<Amount(15000), Amount(3000)>>,
        deductions |-> <<Amount(5000), Amount(2250)>>,
        overtimeRate |-> 200, isActive |-> TRUE] >>

\* the list of useUsers(): id, name, role and isActive of each user
users ==
    << [id |-> "1", name |-> "Main Admin", role |-> "main_admin", isActive |-> TRUE],
       [id |-> "2", name |-> "Staff Admin", role |-> "staff_admin", isActive |-> TRUE],
       [id |-> "3", name |-> "Challan Staff", role |-> "challan_staff", isActive |-> TRUE],
       [id |-> "4", name |-> "Former Staff", role |-> "data_entry_staff",
        isActive |-> FALSE] >>

generateSalaryId ==
    <<"S","A","L">> \o padStart(toString(Len(salaryRecords) + 1), 3, "0")

getStaffConfigIndex_ignoresActive(userId) ==
    FindIndex([i \in 1..Len(staffConfigs) |-> staffConfigs[i].userId = userId])

\* getStaffConfig(userId) as an index into staffConfigs, 0 when undefined
getStaffConfigIndex(userId) ==
    FindIndex([i \in 1..Len(staffConfigs) |->
                  staffConfigs[i].userId = userId /\ staffConfigs[i].isActive])

\* Array.prototype.reduce((sum, ot) => sum + ot.hours, 0)
RECURSIVE reduceHours(_)
reduceHours(items) ==
    IF items = <<>> THEN 0
    ELSE reduceHours(SubSeq(items, 1, Len(items) - 1)) + items[Len(items)].hours

\* Array.prototype.reduce((sum, r) => sum + (r.overtime || 0), 0), in whole hours
RECURSIVE reduceOvertime(_)
reduceOvertime(records) ==
    IF records = <<>> THEN 0
    ELSE reduceOvertime(SubSeq(records, 1, Len(records) - 1))
         + (IF Has(records[Len(records)], "overtime")
            THEN records[Len(records)].overtime \div UnitsPerHour ELSE 0)

\* the pay period a day of the attendance clock lies in
periodOfDay(day) == December2024

\* getUserAttendanceStats(userId, startDate, endDate).overtimeHours
attendanceOvertimeHours(userId, period) ==
    LET inPeriod(r) == r.userId = userId /\ periodOfDay(r.date) = period
    IN  reduceOvertime(SelectSeq(attendanceRecords, inPeriod))

\* newRecord of createSalaryRecord(data), config being the staff configuration
newSalaryRecord(data, config) ==
    LET overtime == IF Has(data, "overtime") THEN data.overtime ELSE <<>>
        bonus == IF Has(data, "bonus") THEN data.bonus ELSE 0
        pay == calculateSalary(config, reduceHours(overtime), bonus)
    IN  data @@ [id |-> generateSalaryId,
                 baseSalary |-> config.baseSalary,
                 allowances |-> config.allowances,
                 deductions |-> config.deductions,
                 overtime |-> overtime,
                 bonus |-> bonus,
                 grossSalary |-> pay.gross,
                 netSalary |-> pay.net,
                 status |-> "draft"]

CreateSalaryRecord(data) ==
    /\ ops < MaxSalaryOps
    /\ ops' = ops + 1
    /\ ~isConnected
    /\ LET i == getStaffConfigIndex(data.userId) IN
       IF i = 0
       THEN /\ last' = [op |-> "createSalaryRecord", userId |-> data.userId, threw |-> TRUE,
                        message |-> "Staff salary configuration not found"]
            /\ UNCHANGED salaryRecords
       ELSE /\ salaryRecords' = Append(salaryRecords, newSalaryRecord(data, staffConfigs[i]))
            /\ last' = [op |-> "createSalaryRecord", userId |-> data.userId, threw |-> FALSE,
                        ret |-> newSalaryRecord(data, staffConfigs[i])]
    /\ loading' = finallyBlock(loading, "salary")
    /\ UNCHANGED <<isConnected, now, storeVars, authVars, attendanceVars, calcInput, gmailVars, inflight,
                   staffConfigs, payrollSummaries, gatewayVars>>

UpdateSalaryRecord(id, data) ==
    /\ ops < MaxSalaryOps
    /\ ops' = ops + 1
    /\ ~isConnected
    /\ salaryRecords' = [i \in 1..Len(salaryRecords) |->
                            IF salaryRecords[i].id = id THEN data @@ salaryRecords[i]
                            ELSE salaryRecords[i]]
    /\ last' = [op |-> "updateSalaryRecord", calls |-> <<>>]
    /\ UNCHANGED <<isConnected, now, storeVars, authVars, attendanceVars, calcInput, gmailVars, loadVars,
                   staffConfigs, payrollSummaries, gatewayVars>>

\* approveSalary(id) and paySalary(id) are updateSalaryRecord with a fixed partial
approveSalary(id) ==
    UpdateSalaryRecord(id, IF user = NoUser
                           THEN [status |-> "approved", approvedAt |-> now]
                           ELSE [status |-> "approved", approvedBy |-> user.name,
                                 approvedAt |-> now])

paySalary(id) == UpdateSalaryRecord(id, [status |-> "paid"])

DeleteSalaryRecord(id) ==
    /\ ops < MaxSalaryOps
    /\ ops' = ops + 1
    /\ LET P(r) == r.id # id IN salaryRecords' = SelectSeq(salaryRecords, P)
    /\ last' = [op |-> "deleteSalaryRecord", id |-> id, calls |-> <<>>]
    /\ UNCHANGED <<isConnected, now, storeVars, authVars, attendanceVars, calcInput, gmailVars, loadVars,
                   staffConfigs, payrollSummaries, gatewayVars>>

newStaffConfig(data) ==
    data @@ [id |-> <<"C","O","N","F","I","G">> \o toString(now),
             baseSalary |-> 0, allowances |-> <<>>, deductions |-> <<>>,
             overtimeRate |-> 0, isActive |-> TRUE]

CreateStaffConfig(data) ==
    /\ ops < MaxSalaryOps
    /\ ops' = ops + 1
    /\ ~isConnected
    /\ staffConfigs' = Append(staffConfigs, newStaffConfig(data))
    /\ last' = [op |-> "createStaffConfig"]
    /\ UNCHANGED <<isConnected, now, storeVars, authVars, attendanceVars, calcInput, gmailVars, loadVars,
                   salaryRecords, payrollSummaries, gatewayVars>>

UpdateStaffConfig(id, data) ==
    /\ ops < MaxSalaryOps
    /\ ops' = ops + 1
    /\ ~isConnected
    /\ staffConfigs' = [i \in 1..Len(staffConfigs) |->
                           IF staffConfigs[i].id = id THEN data @@ staffConfigs[i]
                           ELSE staffConfigs[i]]
    /\ last' = [op |-> "updateStaffConfig", calls |-> <<>>]
    /\ UNCHANGED <<isConnected, now, storeVars, authVars, attendanceVars, calcInput, gmailVars, loadVars,
                   salaryRecords, payrollSummaries, gatewayVars>>

\* the salaryRecord generatePayroll builds for one staff member
payrollRecord(staff, month, year) ==
    LET config == staffConfigs[getStaffConfigIndex(staff.id)]
        overtimeHours == attendanceOvertimeHours(staff.id, [month |-> month, year |-> year])
        pay == calculateSalary(config, overtimeHours, 0)
    IN  [id |-> generateSalaryId,
         userId |-> staff.id,
         baseSalary |-> config.baseSalary,
         allowances |-> config.allowances,
         deductions |-> config.deductions,
         overtime |-> IF overtimeHours > 0
                      THEN <<[hours |-> overtimeHours, rate |-> config.overtimeRate,
                              amount |-> overtimeHours * config.overtimeRate]>>
                      ELSE <<>>,
         bonus |-> 0,
         grossSalary |-> pay.gross,
         netSalary |-> pay.net,
         payPeriod |-> [month |-> month, year |-> year],
         status |-> "draft"]

\* the payrollRecords array of generatePayroll(month, year)
payrollRecords(month, year) ==
    LET paid(u) == u.isActive /\ getStaffConfigIndex(u.id) > 0
        staff == SelectSeq(users, paid)
    IN  [i \in 1..Len(staff) |-> payrollRecord(staff[i], month, year)]

RECURSIVE reduceField(_, _)
reduceField(records, field) ==
    IF records = <<>> THEN 0
    ELSE reduceField(SubSeq(records, 1, Len(records) - 1), field)
         + records[Len(records)][field]

payrollSummary(records, month, year) ==
    [month |-> month, year |-> year,
     totalStaff |-> Len(records),
     totalGrossSalary |-> reduceField(records, "grossSalary"),
     totalNetSalary |-> reduceField(records, "netSalary"),
     paidCount |-> 0,
     pendingCount |-> Len(records),
     status |-> "draft"]

GeneratePayroll(month, year) ==
    /\ ops < MaxSalaryOps
    /\ ops' = ops + 1
    /\ LET records == payrollRecords(month, year)
           summary == payrollSummary(records, month, year)
       IN  /\ salaryRecords' = salaryRecords \o records
           /\ payrollSummaries' = Append(payrollSummaries, summary)
           /\ last' = [op |-> "generatePayroll", month |-> month, year |-> year,
                       ret |-> summary]
    /\ UNCHANGED <<isConnected, now, storeVars, authVars, attendanceVars, calcInput, gmailVars, loadVars,
                   staffConfigs, gatewayVars>>

SalaryInputs ==
    { [userId |-> "2", payPeriod |-> January2025],
      [userId |-> "2", payPeriod |-> January2025, bonus |-> 700,
       overtime |-> <<[hours |-> 3, rate |-> 200, amount |-> 600]>>],
      [userId |-> "3", payPeriod |-> January2025] }

SalaryUpdates == { [bonus |-> 700], [notes |-> "checked"] }

StaffConfigInputs ==
    { [userId |-> "3", baseSalary |-> 35000, allowances |-> <<Amount(2500)>>,
       deductions |-> <<Amount(1750)>>, overtimeRate |-> 150],
      [userId |-> "4", baseSalary |-> 15000] }

StaffConfigUpdates == { [isActive |-> FALSE] }

PayPeriods == {December2024, January2025}

SalaryIds == {salaryRecords[i].id : i \in 1..Len(salaryRecords)}

StaffConfigIds == {staffConfigs[i].id : i \in 1..Len(staffConfigs)}

\* attendance the salary store can find: none, or user 2 clocked in at 09:00
\* and out at 20:00 on day 0 (10 working hours, 2 of them overtime)
AttendanceSeeds ==
    { <<>>,
      << [id |-> <<"A","T","T","0","0","1">>, userId |-> "2", date |-> 0,
          clockInTime |-> 9 * UnitsPerHour, status |-> "present",
          clockOutTime |-> 20 * UnitsPerHour, totalHours |-> 10 * UnitsPerHour,
          overtime |-> 2 * UnitsPerHour] >> }

-----------------------------------------------------------------------------
(* Remote-store gateway: DatabaseService and DatabaseProvider *)

NoConfig == "null"

\* what localStorage.getItem('apiConfig') can hold
ApiConfigs ==
    { [kind |-> "absent"],
      [kind |-> "malformed"],
      [kind |-> "json", enabled |-> FALSE, config |-> "configA"],
      [kind |-> "json", enabled |-> TRUE, config |-> NoConfig],
      [kind |-> "json", enabled |-> TRUE, config |-> "configA"],
      [kind |-> "json", enabled |-> TRUE, config |-> "configB"] }

\* how a fetch() can end
TestOutcomes == {"ok_success", "ok_failure", "ok_bad_json", "not_ok", "network_error"}
QueryOutcomes == {"ok_json", "ok_bad_json", "not_ok", "not_ok_unreadable", "network_error"}
QueryBodies == { [success |-> TRUE, data |-> "rows"],
                 [success |-> FALSE, error |-> "SQL error"] }

\* the Settings page stores a configuration
SaveSettings(config) ==
    /\ apiConfig' = config
    /\ UNCHANGED <<isConnected, now, ops, last, storeVars, authVars, attendanceVars,
                   calcInput, gmailVars, loadVars, salaryVars, svcConfig, svcIsConnected, initPc, queryPc, query,
                   gatewayLog, remote>>

\* DatabaseService.initialize() finds a configuration to test
configToTest ==
    IF apiConfig.kind = "json" /\ apiConfig.enabled /\ apiConfig.config # NoConfig
    THEN apiConfig.config ELSE NoConfig

\* DatabaseProvider.initialize() up to the test request, or to its end when
\* DatabaseService.initialize() returns false without a request
InitializeStart ==
    /\ initPc = "idle"
    /\ IF configToTest # NoConfig
       THEN /\ svcConfig' = configToTest
            /\ initPc' = "testing"
            /\ gatewayLog' = [gatewayLog EXCEPT !.loaded = @ \cup {configToTest}]
            /\ UNCHANGED <<isConnected, remote>>
       ELSE /\ isConnected' = FALSE
            /\ UNCHANGED <<svcConfig, initPc, gatewayLog, remote>>
    /\ UNCHANGED <<now, ops, last, storeVars, authVars, attendanceVars, calcInput, gmailVars, loadVars, salaryVars,
                   apiConfig, svcIsConnected, queryPc, query>>

\* testConnection(): true only for an OK response whose body says success
testResult_anyBody(outcome) == outcome \in {"ok_success", "ok_failure"}

testResult(outcome) == outcome = "ok_success"

InitializeFinish(outcome) ==
    /\ initPc = "testing"
    /\ svcIsConnected' = testResult(outcome)
    /\ isConnected' = testResult(outcome)
    /\ initPc' = "idle"
    /\ gatewayLog' = IF outcome = "ok_success"
                     THEN [gatewayLog EXCEPT !.tested = @ \cup {svcConfig}]
                     ELSE gatewayLog
    /\ UNCHANGED <<now, ops, last, storeVars, authVars, attendanceVars, calcInput, gmailVars, loadVars, salaryVars,
                   apiConfig, svcConfig, queryPc, query, remote>>

queryRefused == ~svcIsConnected \/ svcConfig = NoConfig

\* how the try block of query() completes once fetch() has settled
tryBlock(outcome, body) ==
    CASE outcome = "ok_json" -> [kind |-> "return", value |-> body]
      [] outcome = "ok_bad_json" ->
            [kind |-> "throw", error |-> "Unexpected token in JSON"]
      [] outcome = "not_ok" ->
            [kind |-> "return",
             value |-> [success |-> FALSE, error |-> "Query failed: <response text>"]]
      [] outcome = "not_ok_unreadable" ->
            [kind |-> "throw", error |-> "body stream already read"]
      [] outcome = "network_error" -> [kind |-> "throw", error |-> "Failed to fetch"]

catchBlock_rethrows(completion) == completion

catchBlock(completion) ==
    IF completion.kind = "throw"
    THEN [kind |-> "return", value |-> [success |-> FALSE, error |-> completion.error]]
    ELSE completion

QueryCall ==
    /\ queryPc # "fetching"
    /\ IF queryRefused
       THEN /\ queryPc' = "done"
            /\ query' = [connected |-> svcIsConnected /\ svcConfig # NoConfig,
                         fetches |-> 0, outcome |-> "none", threw |-> FALSE,
                         ret |-> [success |-> FALSE, error |-> "Database not connected"]]
       ELSE /\ queryPc' = "fetching"
            /\ query' = [connected |-> svcIsConnected /\ svcConfig # NoConfig,
                         fetches |-> 1, outcome |-> "pending", threw |-> FALSE]
    /\ UNCHANGED <<isConnected, now, ops, last, storeVars, authVars, attendanceVars,
                   calcInput, gmailVars, loadVars, salaryVars, apiConfig, svcConfig, svcIsConnected, initPc, gatewayLog,
                   remote>>

QueryFinish(outcome, body) ==
    /\ queryPc = "fetching"
    /\ LET completion == catchBlock(tryBlock(outcome, body)) IN
       query' = IF completion.kind = "throw"
                THEN [query EXCEPT !.outcome = outcome, !.threw = TRUE]
                ELSE [ret |-> completion.value] @@ [query EXCEPT !.outcome = outcome]
    /\ queryPc' = "done"
    /\ UNCHANGED <<isConnected, now, ops, last, storeVars, authVars, attendanceVars,
                   calcInput, gmailVars, loadVars, salaryVars, apiConfig, svcConfig, svcIsConnected, initPc, gatewayLog,
                   remote>>

-----------------------------------------------------------------------------
(* Entity stores, remote mode.  The remote store holds one table per entity, *)
(* rows in insertion order; ids are AUTO_INCREMENT and created_at grows with *)
(* insertion, so ORDER BY created_at DESC is the reverse of insertion order. *)
(* A gateway call either succeeds or returns success: false (query() never   *)
(* throws); a reload either delivers the rows or leaves the list untouched.  *)

EmptyTables == [documents |-> <<>>, customers |-> <<>>, builders |-> <<>>, tasks |-> <<>>]

GatewayOutcomes == {"success", "failure"}

\* a bound parameter that was undefined is stored as NULL
Null == <<"NULL">>

\* a call of a gateway method and how it ended
Call(method, outcome) == [call |-> method, outcome |-> outcome]

Reverse(s) == [i \in 1..Len(s) |-> s[Len(s) + 1 - i]]

columnOf(data, field) == IF Has(data, field) THEN data[field] ELSE Null

\* GROUP_CONCAT(d.document_number) over the documents joined ON d.column = value,
\* split on ','
joinedDocuments(documentRows, column, value) ==
    LET matches(d) == d[column] = value
        hits == SelectSeq(documentRows, matches)
    IN  [i \in 1..Len(hits) |-> hits[i].document_number]

\* the rows of getCustomers() mapped by loadCustomersFromDatabase
customersFromRows(tables) ==
    LET rows == Reverse(tables.customers) IN
    [i \in 1..Len(rows) |->
        [id |-> toString(rows[i].id), name |-> rows[i].name, phone |-> rows[i].phone,
         documents |-> joinedDocuments(tables.documents, "customer_phone", rows[i].phone)]]

\* the rows of getBuilders() mapped by loadBuildersFromDatabase
buildersFromRows(tables) ==
    LET rows == Reverse(tables.builders) IN
    [i \in 1..Len(rows) |->
        [id |-> toString(rows[i].id), name |-> rows[i].name,
         documents |-> joinedDocuments(tables.documents, "builder_name", rows[i].name)]]

\* the rows of getDocuments() mapped by loadDocumentsFromDatabase
documentsFromRows(tables) ==
    LET rows == Reverse(tables.documents) IN
    [i \in 1..Len(rows) |->
        [id |-> toString(rows[i].id), documentNumber |-> rows[i].document_number,
         customerName |-> rows[i].customer_name, customerPhone |-> rows[i].customer_phone,
         builderName |-> rows[i].builder_name, documentType |-> rows[i].document_type,
         status |-> rows[i].status, createdAt |-> rows[i].created_at]]

\* the rows of getTasks() mapped by loadTasksFromDatabase
tasksFromRows(tables) ==
    LET rows == Reverse(tables.tasks) IN
    [i \in 1..Len(rows) |->
        [id |-> toString(rows[i].id), title |-> rows[i].title,
         priority |-> rows[i].priority, status |-> rows[i].status,
         createdAt |-> rows[i].created_at]]

\* list[list.length - 1] of the list the handler closed over: absent when empty
lastElement(list) == IF Len(list) > 0 THEN [ret |-> list[Len(list)]] ELSE [none |-> TRUE]

\* list.find(x => x.id === id) of the list the handler closed over
elementWithId(list, id) ==
    LET i == FindIndex([k \in 1..Len(list) |-> list[k].id = id])
    IN  IF i > 0 THEN [ret |-> list[i]] ELSE [none |-> TRUE]

\* UPDATE ... SET columns WHERE id = ?
updateRows(rows, id, columns) ==
    [i \in 1..Len(rows) |->
        IF toString(rows[i].id) = id THEN columns @@ rows[i] ELSE rows[i]]

\* createCustomer(data) with the remote store active: what it does to the
\* tables and to the list, the gateway calls it makes and how it completes
remoteCreateCustomer_reloadsAnyway(tables, data, outcome, reload) ==
    LET row == [id |-> Len(tables.customers) + 1,
                name |-> OrElse(data, "name", <<>>),
                phone |-> OrElse(data, "phone", <<>>)]
        inserted == [tables EXCEPT !.customers = Append(@, row)]
        written == IF outcome = "success" THEN inserted ELSE tables
    IN  [tables |-> written,
         list |-> IF reload = "success" THEN customersFromRows(written) ELSE customers,
         calls |-> <<Call("createCustomer", outcome), Call("getCustomers", reload)>>,
         threw |-> outcome # "success",
         loading |-> FALSE] @@ lastElement(customers)

remoteCreateCustomer(tables, data, outcome, reload) ==
    LET row == [id |-> Len(tables.customers) + 1,
                name |-> OrElse(data, "name", <<>>),
                phone |-> OrElse(data, "phone", <<>>)]
        inserted == [tables EXCEPT !.customers = Append(@, row)]
    IN  IF outcome = "success"
        THEN [tables |-> inserted,
              list |-> IF reload = "success" THEN customersFromRows(inserted)
                       ELSE customers,
              calls |-> <<Call("createCustomer", "success"), Call("getCustomers", reload)>>,
              threw |-> FALSE,
              loading |-> FALSE] @@ lastElement(customers)
        ELSE [tables |-> tables, list |-> customers, calls |-> <<Call("createCustomer", "failure")>>,
              threw |-> TRUE, loading |-> FALSE]

remoteUpdateCustomer(tables, id, data, outcome, reload) ==
    LET columns == [name |-> columnOf(data, "name"), phone |-> columnOf(data, "phone")]
        updated == [tables EXCEPT !.customers = updateRows(@, id, columns)]
    IN  IF outcome = "success"
        THEN [tables |-> updated,
              list |-> IF reload = "success" THEN customersFromRows(updated)
                       ELSE customers,
              calls |-> <<Call("updateCustomer", "success"), Call("getCustomers", reload)>>,
              threw |-> FALSE,
              loading |-> FALSE] @@ elementWithId(customers, id)
        ELSE [tables |-> tables, list |-> customers, calls |-> <<Call("updateCustomer", "failure")>>,
              threw |-> TRUE, loading |-> FALSE]

remoteCreateBuilder(tables, data, outcome, reload) ==
    LET row == [id |-> Len(tables.builders) + 1, name |-> OrElse(data, "name", <<>>)]
        inserted == [tables EXCEPT !.builders = Append(@, row)]
    IN  IF outcome = "success"
        THEN [tables |-> inserted,
              list |-> IF reload = "success" THEN buildersFromRows(inserted)
                       ELSE builders,
              calls |-> <<Call("createBuilder", "success"), Call("getBuilders", reload)>>,
              threw |-> FALSE,
              loading |-> FALSE] @@ lastElement(builders)
        ELSE [tables |-> tables, list |-> builders, calls |-> <<Call("createBuilder", "failure")>>,
              threw |-> TRUE, loading |-> FALSE]

remoteUpdateBuilder(tables, id, data, outcome, reload) ==
    LET columns == [name |-> columnOf(data, "name")]
        updated == [tables EXCEPT !.builders = updateRows(@, id, columns)]
    IN  IF outcome = "success"
        THEN [tables |-> updated,
              list |-> IF reload = "success" THEN buildersFromRows(updated)
                       ELSE builders,
              calls |-> <<Call("updateBuilder", "success"), Call("getBuilders", reload)>>,
              threw |-> FALSE,
              loading |-> FALSE] @@ elementWithId(builders, id)
        ELSE [tables |-> tables, list |-> builders, calls |-> <<Call("updateBuilder", "failure")>>,
              threw |-> TRUE, loading |-> FALSE]

\* what a handler's completion leaves in `last`
completionOf(op, done) ==
    [op |-> op, mode |-> "remote", calls |-> done.calls, threw |-> done.threw,
     loading |-> done.loading]
    @@ (IF Has(done, "ret") THEN [ret |-> done.ret] ELSE [none |-> TRUE])

RemoteCreateCustomer(data, outcome, reload) ==
    /\ ops < MaxRemoteOps
    /\ ops' = ops + 1
    /\ isConnected
    /\ LET done == remoteCreateCustomer(remote, data, outcome, reload) IN
       /\ remote' = done.tables
       /\ customers' = done.list
       /\ last' = completionOf("createCustomer", done)
    /\ UNCHANGED <<isConnected, now, documents, builders, tasks>>
    /\ UNCHANGED <<authVars, attendanceVars, calcInput, gmailVars, loadVars, salaryVars>>
    /\ UNCHANGED <<apiConfig, svcConfig, svcIsConnected, initPc, queryPc, query, gatewayLog>>

RemoteUpdateCustomer(id, data, outcome, reload) ==
    /\ ops < MaxRemoteOps
    /\ ops' = ops + 1
    /\ isConnected
    /\ LET done == remoteUpdateCustomer(remote, id, data, outcome, reload) IN
       /\ remote' = done.tables
       /\ customers' = done.list
       /\ last' = completionOf("updateCustomer", done)
    /\ UNCHANGED <<isConnected, now, documents, builders, tasks>>
    /\ UNCHANGED <<authVars, attendanceVars, calcInput, gmailVars, loadVars, salaryVars>>
    /\ UNCHANGED <<apiConfig, svcConfig, svcIsConnected, initPc, queryPc, query, gatewayLog>>

RemoteCreateBuilder(data, outcome, reload) ==
    /\ ops < MaxRemoteOps
    /\ ops' = ops + 1
    /\ isConnected
    /\ LET done == remoteCreateBuilder(remote, data, outcome, reload) IN
       /\ remote' = done.tables
       /\ builders' = done.list
       /\ last' = completionOf("createBuilder", done)
    /\ UNCHANGED <<isConnected, now, documents, customers, tasks>>
    /\ UNCHANGED <<authVars, attendanceVars, calcInput, gmailVars, loadVars, salaryVars>>
    /\ UNCHANGED <<apiConfig, svcConfig, svcIsConnected, initPc, queryPc, query, gatewayLog>>

RemoteUpdateBuilder(id, data, outcome, reload) ==
    /\ ops < MaxRemoteOps
    /\ ops' = ops + 1
    /\ isConnected
    /\ LET done == remoteUpdateBuilder(remote, id, data, outcome, reload) IN
       /\ remote' = done.tables
       /\ builders' = done.list
       /\ last' = completionOf("updateBuilder", done)
    /\ UNCHANGED <<isConnected, now, documents, customers, tasks>>
    /\ UNCHANGED <<authVars, attendanceVars, calcInput, gmailVars, loadVars, salaryVars>>
    /\ UNCHANGED <<apiConfig, svcConfig, svcIsConnected, initPc, queryPc, query, gatewayLog>>

remoteCreateTask(tables, data, outcome, reload) ==
    LET row == [id |-> Len(tables.tasks) + 1,
                title |-> OrElse(data, "title", <<>>),
                priority |-> IF Has(data, "priority") THEN data.priority ELSE "medium",
                status |-> "pending",
                created_at |-> now]
        inserted == [tables EXCEPT !.tasks = Append(@, row)]
    IN  IF outcome = "success"
        THEN [tables |-> inserted,
              list |-> IF reload = "success" THEN tasksFromRows(inserted) ELSE tasks,
              calls |-> <<Call("createTask", "success"), Call("getTasks", reload)>>,
              threw |-> FALSE,
              loading |-> FALSE] @@ lastElement(tasks)
        ELSE [tables |-> tables, list |-> tasks, calls |-> <<Call("createTask", "failure")>>,
              threw |-> TRUE, loading |-> FALSE]

RemoteCreateTask(data, outcome, reload) ==
    /\ ops < MaxRemoteOps
    /\ ops' = ops + 1
    /\ isConnected
    /\ LET done == remoteCreateTask(remote, data, outcome, reload) IN
       /\ remote' = done.tables
       /\ tasks' = done.list
       /\ last' = completionOf("createTask", done)
    /\ UNCHANGED <<isConnected, now, documents, customers, builders>>
    /\ UNCHANGED <<authVars, attendanceVars, calcInput, gmailVars, loadVars, salaryVars>>
    /\ UNCHANGED <<apiConfig, svcConfig, svcIsConnected, initPc, queryPc, query, gatewayLog>>

\* the steps of createDocument whose gateway call can succeed or fail
DocumentSteps == {"insert", "customer", "customerReload", "builder", "builderReload",
                  "reload"}

autoCreateThrew_reloads(tables, customerList, builderList, calls) ==
    [tables |-> tables, list |-> documentsFromRows(tables), customers |-> customerList,
     builders |-> builderList, calls |-> Append(calls, Call("getDocuments", "success")),
     threw |-> TRUE, loading |-> FALSE]

\* createDocument(data) left by the error createCustomer or createBuilder threw:
\* the catch block rethrows it, the document list is not reloaded
autoCreateThrew(tables, customerList, builderList, calls) ==
    [tables |-> tables, list |-> documents, customers |-> customerList,
     builders |-> builderList, calls |-> calls, threw |-> TRUE, loading |-> FALSE]

\* createDocument(data) with the remote store active
remoteCreateDocument(tables, data, o) ==
    LET row == [id |-> Len(tables.documents) + 1,
                document_number |-> OrElse(data, "documentNumber",
                                           generateDocumentNumber(data.documentType)),
                customer_name |-> OrElse(data, "customerName", <<>>),
                customer_phone |-> OrElse(data, "customerPhone", <<>>),
                builder_name |-> OrElse(data, "builderName", <<>>),
                document_type |-> data.documentType,
                status |-> "pending_collection",
                created_at |-> now]
        inserted == [tables EXCEPT !.documents = Append(@, row)]
        needsCustomer == /\ OrElse(data, "customerName", <<>>) # <<>>
                         /\ OrElse(data, "customerPhone", <<>>) # <<>>
                         /\ getCustomerByPhoneIndex(data.customerPhone) = 0
        customer == IF needsCustomer
                    THEN remoteCreateCustomer(inserted,
                             [name |-> data.customerName, phone |-> data.customerPhone],
                             o["customer"], o["customerReload"])
                    ELSE [tables |-> inserted, list |-> customers, calls |-> <<>>,
                          threw |-> FALSE, loading |-> FALSE]
        needsBuilder == /\ OrElse(data, "builderName", <<>>) # <<>>
                        /\ getBuilderByNameIndex(data.builderName) = 0
        builder == IF needsBuilder
                   THEN remoteCreateBuilder(customer.tables, [name |-> data.builderName],
                            o["builder"], o["builderReload"])
                   ELSE [tables |-> customer.tables, list |-> builders, calls |-> <<>>,
                         threw |-> FALSE, loading |-> FALSE]
    IN  CASE o["insert"] = "failure" ->
                [tables |-> tables, list |-> documents, customers |-> customers,
                 builders |-> builders, calls |-> <<Call("createDocument", "failure")>>,
              threw |-> TRUE, loading |-> FALSE]
          [] o["insert"] = "success" /\ customer.threw ->
                autoCreateThrew(customer.tables, customer.list, builders,
                                <<Call("createDocument", "success")>> \o customer.calls)
          [] o["insert"] = "success" /\ ~customer.threw /\ builder.threw ->
                autoCreateThrew(builder.tables, customer.list, builder.list,
                                <<Call("createDocument", "success")>> \o customer.calls
                                \o builder.calls)
          [] OTHER ->
                [tables |-> builder.tables,
                 list |-> IF o["reload"] = "success" THEN documentsFromRows(builder.tables)
                          ELSE documents,
                 customers |-> customer.list, builders |-> builder.list,
                 calls |-> <<Call("createDocument", "success")>> \o customer.calls
                           \o builder.calls \o <<Call("getDocuments", o["reload"])>>,
                 threw |-> FALSE, loading |-> FALSE] @@ lastElement(documents)

\* the columns of the documents table an update can name
documentColumns == {"status"}

\* updateDocument(id, data) with the remote store active; the gateway names
\* the keys of data as columns
remoteUpdateDocument(tables, id, data, outcome, reload) ==
    LET columns == [k \in DOMAIN data |-> data[k]]
        updated == [tables EXCEPT !.documents = updateRows(@, id, columns)]
    IN  IF outcome = "success"
        THEN [tables |-> updated,
              list |-> IF reload = "success" THEN documentsFromRows(updated)
                       ELSE documents,
              calls |-> <<Call("updateDocument", "success"), Call("getDocuments", reload)>>,
              threw |-> FALSE,
              loading |-> FALSE] @@ elementWithId(documents, id)
        ELSE [tables |-> tables, list |-> documents, calls |-> <<Call("updateDocument", "failure")>>,
              threw |-> TRUE, loading |-> FALSE]

RemoteCreateDocument(data, o) ==
    /\ ops < MaxRemoteDocOps
    /\ ops' = ops + 1
    /\ isConnected
    /\ LET done == remoteCreateDocument(remote, data, o) IN
       /\ remote' = done.tables
       /\ documents' = done.list
       /\ customers' = done.customers
       /\ builders' = done.builders
       /\ last' = [data |-> data] @@ completionOf("createDocument", done)
    /\ UNCHANGED <<isConnected, now, tasks>>
    /\ UNCHANGED <<authVars, attendanceVars, calcInput, gmailVars, loadVars, salaryVars>>
    /\ UNCHANGED <<apiConfig, svcConfig, svcIsConnected, initPc, queryPc, query, gatewayLog>>

RemoteUpdateDocument(id, data, outcome, reload) ==
    /\ ops < MaxRemoteDocOps
    /\ ops' = ops + 1
    /\ isConnected
    /\ DOMAIN data \subseteq documentColumns \/ outcome = "failure"
    /\ LET done == remoteUpdateDocument(remote, id, data, outcome, reload) IN
       /\ remote' = done.tables
       /\ documents' = done.list
       /\ last' = completionOf("updateDocument", done)
    /\ UNCHANGED <<isConnected, now, customers, builders, tasks>>
    /\ UNCHANGED <<authVars, attendanceVars, calcInput, gmailVars, loadVars, salaryVars>>
    /\ UNCHANGED <<apiConfig, svcConfig, svcIsConnected, initPc, queryPc, query, gatewayLog>>

-----------------------------------------------------------------------------
(* Specifications *)

InitStores ==
    /\ isConnected = FALSE
    /\ now = 0
    /\ documents = <<>>
    /\ customers = <<>>
    /\ builders = <<>>
    /\ tasks = <<>>
    /\ ops = 0
    /\ last = [op |-> "none"]

InitGateway ==
    /\ apiConfig = [kind |-> "absent"]
    /\ svcConfig = NoConfig
    /\ svcIsConnected = FALSE
    /\ initPc = "idle"
    /\ queryPc = "idle"
    /\ query = [connected |-> FALSE, fetches |-> 0, outcome |-> "none", threw |-> FALSE]
    /\ gatewayLog = [loaded |-> {}, tested |-> {}]
    /\ remote = EmptyTables

\* GmailProvider: useState([]) and useState(false)
InitGmail ==
    /\ gmailIsConnected = FALSE
    /\ messages = <<>>

InitLoading ==
    /\ loading = [s \in Stores |-> FALSE]
    /\ inflight = <<>>

InitSalary ==
    /\ salaryRecords = mockSalaryRecords
    /\ staffConfigs = mockStaffConfigs
    /\ payrollSummaries = <<>>

InitSession ==
    /\ user = NoUser
    /\ allUsers = mockUsers

InitAttendance ==
    /\ clock = [day |-> 0, sec |-> 32400]
    /\ attendanceRecords = <<>>

Init ==
    /\ InitStores
    /\ InitSession
    /\ InitAttendance
    /\ calcInput = [none |-> TRUE]
    /\ InitLoading
    /\ InitGmail
    /\ InitSalary
    /\ InitGateway

NextDocs ==
    \/ Tick
    \/ \E data \in DocumentInputs : CreateDocument(data)
    \/ \E id \in DocumentIds, data \in DocumentUpdates : UpdateDocument(id, data)
    \/ \E id \in DocumentIds : DeleteDocument(id)
    \/ \E id \in CustomerIds : DeleteCustomer(id)
    \/ \E id \in BuilderIds : DeleteBuilder(id)

SpecDocs == Init /\ [][NextDocs]_vars

\* the document store with inputs that carry a status
NextStatus ==
    \/ Tick
    \/ \E data \in StatusInputs : CreateDocument(data)
    \/ \E id \in DocumentIds : DeleteDocument(id)

SpecStatus == Init /\ [][NextStatus]_vars

\* the document store alone: no customer or builder is ever deleted
NextDocuments ==
    \/ Tick
    \/ \E data \in DocumentInputs : CreateDocument(data)
    \/ \E id \in DocumentIds, data \in DocumentUpdates : UpdateDocument(id, data)
    \/ \E id \in DocumentIds : DeleteDocument(id)

SpecDocuments == Init /\ [][NextDocuments]_vars

InitSalaryStore ==
    /\ InitStores
    /\ InitSession
    /\ clock = [day |-> 0, sec |-> 32400]
    /\ attendanceRecords \in AttendanceSeeds
    /\ calcInput = [none |-> TRUE]
    /\ InitLoading
    /\ InitGmail
    /\ InitSalary
    /\ InitGateway

(***************************************************************************)
(* The loading flags, one step per await.  Every handler is                *)
(*   setLoading(true); try { ... } finally { setLoading(false) }           *)
(* and between the two an operation waits for the gateway: for its write,  *)
(* for the reload that follows a successful write, and in createDocument   *)
(* for the nested createCustomer and createBuilder.  The data the handlers *)
(* move is left to the actions above; which nested creates a document      *)
(* needs depends on that data and is chosen freely here.                   *)
(***************************************************************************)
LoadKinds == {"create", "update", "delete"}

\* the handlers with an `if (isConnected)` branch that awaits the gateway
writesThrough(store, kind) ==
    \/ kind = "create"
    \/ kind = "update" /\ store # "attendance"

\* a successful write is followed by `await loadXFromDatabase()`
reloadsAfterWrite(store) == store # "attendance"

\* awaited gateway requests of one reload
reloadRequests(store) == IF store = "salary" THEN 2 ELSE 1

\* auto-creates of one createDocument call, in the order of the code
NestedPlans == { <<>>, <<"customers">>, <<"builders">>, <<"customers", "builders">> }

RemoveAt(s, i) == SubSeq(s, 1, i - 1) \o SubSeq(s, i + 1, Len(s))

\* an operation of the store is between its setLoading(true) and its finally
InFlight(store) ==
    \E i \in 1..Len(inflight) :
        \/ inflight[i].store = store
        \/ /\ inflight[i].pc \in {"nestedWrite", "nestedReload"}
           /\ Head(inflight[i].plan) = store

\* create, update or delete is called: setLoading(true), then the branch
StartOperation(store, kind, plan) ==
    /\ ops < MaxLoadOps
    /\ ops' = ops + 1
    /\ plan # <<>> => store = "documents" /\ kind = "create"
    /\ loading' = [loading EXCEPT ![store] = TRUE]
    /\ inflight' = Append(inflight,
                          [store |-> store, plan |-> plan, left |-> 0,
                           pc |-> IF isConnected /\ writesThrough(store, kind)
                                  THEN "write" ELSE "local"])
    /\ last' = [op |-> "start", store |-> store]
    /\ UNCHANGED <<isConnected, now, storeVars, authVars, attendanceVars, calcInput, gmailVars,
                   salaryVars, gatewayVars>>

\* loadXFromDatabase is called on its own: `if (!isConnected) return` comes
\* before setLoading(true)
StartReload(store) ==
    /\ ops < MaxLoadOps
    /\ ops' = ops + 1
    /\ store # "attendance"
    /\ isConnected
    /\ loading' = [loading EXCEPT ![store] = TRUE]
    /\ inflight' = Append(inflight,
                          [store |-> store, plan |-> <<>>,
                           left |-> reloadRequests(store), pc |-> "reload"])
    /\ last' = [op |-> "start", store |-> store]
    /\ UNCHANGED <<isConnected, now, storeVars, authVars, attendanceVars, calcInput, gmailVars,
                   salaryVars, gatewayVars>>

\* the operation at position i of inflight goes on: its local branch runs,
\* or the gateway answers the request it awaits
Respond(i, outcome) ==
    /\ i \in 1..Len(inflight)
    /\ LET o == inflight[i]
           done(flags, threw) ==
               /\ loading' = finallyBlock(flags, o.store)
               /\ inflight' = RemoveAt(inflight, i)
               /\ last' = [op |-> "finished", store |-> o.store, threw |-> threw]
           goesOn(flags, pc, plan, left) ==
               /\ loading' = flags
               /\ inflight' = [inflight EXCEPT ![i] = [o EXCEPT !.pc = pc, !.plan = plan,
                                                                !.left = left]]
               /\ UNCHANGED last
           startsReload ==
               goesOn([loading EXCEPT ![o.store] = TRUE], "reload", <<>>,
                      reloadRequests(o.store))
       IN
       CASE o.pc = "local" ->
              \* the nested creates of a local createDocument each end in
              \* their own finally; the outcome says whether the branch threw
              done([s \in Stores |->
                      IF \E k \in 1..Len(o.plan) : o.plan[k] = s THEN FALSE ELSE loading[s]],
                   outcome = "failure")
         [] o.pc = "write" ->
              IF outcome = "failure"
              THEN done(loading, TRUE)
              ELSE IF o.plan # <<>>
              THEN goesOn([loading EXCEPT ![Head(o.plan)] = TRUE], "nestedWrite", o.plan, 0)
              ELSE IF reloadsAfterWrite(o.store)
              THEN startsReload
              ELSE done(loading, FALSE)
         [] o.pc = "nestedWrite" ->
              IF outcome = "failure"
              THEN done(finallyBlock(loading, Head(o.plan)), TRUE)
              ELSE goesOn([loading EXCEPT ![Head(o.plan)] = TRUE], "nestedReload", o.plan, 0)
         [] o.pc = "nestedReload" ->
              IF Tail(o.plan) # <<>>
              THEN goesOn([finallyBlock(loading, Head(o.plan))
                              EXCEPT ![Head(Tail(o.plan))] = TRUE],
                          "nestedWrite", Tail(o.plan), 0)
              ELSE goesOn([finallyBlock(loading, Head(o.plan)) EXCEPT ![o.store] = TRUE],
                          "reload", <<>>, reloadRequests(o.store))
         [] o.pc = "reload" ->
              IF o.left > 1
              THEN goesOn(loading, "reload", o.plan, o.left - 1)
              ELSE done(finallyBlock(loading, o.store), FALSE)
    /\ UNCHANGED <<isConnected, now, ops, storeVars, authVars, attendanceVars, calcInput, gmailVars,
                   salaryVars, gatewayVars>>

\* the operations that validate their input, in local mode
NextValidation ==
    \/ \E data \in SalaryInputs : CreateSalaryRecord(data)
    \/ \E id \in StaffConfigIds, data \in StaffConfigUpdates : UpdateStaffConfig(id, data)
    \/ \E data \in StaffConfigInputs : CreateStaffConfig(data)
    \/ \E templateId \in TemplateIds, overrides \in TemplateOverrides :
          CreateTaskFromTemplate(templateId, overrides)
    \/ \E id \in TaskIds : DeleteTask(id)

SpecValidation == InitSalaryStore /\ [][NextValidation]_vars

NextSalary ==
    \/ \E data \in SalaryInputs : CreateSalaryRecord(data)
    \/ \E id \in SalaryIds, data \in SalaryUpdates : UpdateSalaryRecord(id, data)
    \/ \E id \in SalaryIds : approveSalary(id)
    \/ \E id \in SalaryIds : paySalary(id)
    \/ \E id \in SalaryIds : DeleteSalaryRecord(id)
    \/ \E data \in StaffConfigInputs : CreateStaffConfig(data)
    \/ \E id \in StaffConfigIds, data \in StaffConfigUpdates : UpdateStaffConfig(id, data)
    \/ \E period \in PayPeriods : GeneratePayroll(period.month, period.year)

SpecSalary == InitSalaryStore /\ [][NextSalary]_vars

NextOverlap ==
    \/ Tick
    \/ \E data \in CustomerInputs : CreateCustomer(data)
    \/ \E data \in DocumentInputs : CreateDocument(data)
    \/ \E data1 \in CustomerInputs, data2 \in CustomerInputs :
          OverlappedCreateCustomers(data1, data2)
    \/ \E data1 \in DocumentInputs, data2 \in DocumentInputs, t2 \in 0..MaxNow :
          OverlappedCreateDocuments(data1, data2, t2)

SpecOverlap == Init /\ [][NextOverlap]_vars

\* the customer, builder and task stores used directly
NextStores ==
    \/ \E data \in CustomerInputs : CreateCustomer(data)
    \/ \E id \in CustomerIds : DeleteCustomer(id)
    \/ \E data \in BuilderInputs : CreateBuilder(data)
    \/ \E id \in BuilderIds : DeleteBuilder(id)
    \/ \E data \in TaskInputs : CreateTask(data)
    \/ \E id \in TaskIds, data \in TaskUpdates : UpdateTask(id, data)
    \/ \E id \in TaskIds : DeleteTask(id)

SpecStores == Init /\ [][NextStores]_vars

NextSession ==
    \/ handleStorageChange
    \/ \E email \in Emails, password \in Passwords : login(email, password)
    \/ logout
    \/ \E module \in Modules, action \in PermActions : CheckPermission(module, action)

SpecSession == Init /\ [][NextSession]_vars

NextAttendance ==
    \/ \E email \in AttendanceLogins : login(email, "password123")
    \/ logout
    \/ AdvanceClock
    \/ clockIn
    \/ clockOut
    \/ \E userId \in AttendanceUserIds, day \in 0..MaxDay, status \in AttendanceStatuses :
          markAttendance(userId, day * SecondsPerDay + 43200, status)
    \/ \E id \in AttendanceIds, data \in AttendanceUpdates : updateAttendance(id, data)

SpecAttendance == Init /\ [][NextAttendance]_vars

NextGateway ==
    \/ \E config \in ApiConfigs : SaveSettings(config)
    \/ InitializeStart
    \/ \E outcome \in TestOutcomes : InitializeFinish(outcome)
    \/ QueryCall
    \/ \E outcome \in QueryOutcomes, body \in QueryBodies : QueryFinish(outcome, body)

SpecGateway == Init /\ [][NextGateway]_vars

InitCalc ==
    /\ InitStores
    /\ InitSession
    /\ InitAttendance
    /\ calcInput \in CalcInputs
    /\ InitLoading
    /\ InitGmail
    /\ InitSalary
    /\ InitGateway

NextCalc == CalculateSalary

SpecCalc == InitCalc /\ [][NextCalc]_vars

\* the stores once initialize() has connected and the mount effects have
\* loaded the lists from the (still empty) remote tables
InitRemote ==
    /\ isConnected = TRUE
    /\ now = 0
    /\ documents = <<>>
    /\ customers = <<>>
    /\ builders = <<>>
    /\ tasks = <<>>
    /\ ops = 0
    /\ last = [op |-> "none"]
    /\ InitSession
    /\ InitAttendance
    /\ calcInput = [none |-> TRUE]
    /\ InitLoading
    /\ InitGmail
    /\ InitSalary
    /\ apiConfig = [kind |-> "json", enabled |-> TRUE, config |-> "configA"]
    /\ svcConfig = "configA"
    /\ svcIsConnected = TRUE
    /\ initPc = "idle"
    /\ queryPc = "idle"
    /\ query = [connected |-> FALSE, fetches |-> 0, outcome |-> "none", threw |-> FALSE]
    /\ gatewayLog = [loaded |-> {"configA"}, tested |-> {"configA"}]
    /\ remote = EmptyTables

NextRemote ==
    \/ \E data \in CustomerInputs, outcome \in GatewayOutcomes, reload \in GatewayOutcomes :
          RemoteCreateCustomer(data, outcome, reload)
    \/ \E id \in CustomerIds, data \in CustomerUpdates,
          outcome \in GatewayOutcomes, reload \in GatewayOutcomes :
          RemoteUpdateCustomer(id, data, outcome, reload)
    \/ \E data \in BuilderInputs, outcome \in GatewayOutcomes, reload \in GatewayOutcomes :
          RemoteCreateBuilder(data, outcome, reload)
    \/ \E id \in BuilderIds, data \in BuilderUpdates,
          outcome \in GatewayOutcomes, reload \in GatewayOutcomes :
          RemoteUpdateBuilder(id, data, outcome, reload)
    \/ \E data \in TaskInputs, outcome \in GatewayOutcomes, reload \in GatewayOutcomes :
          RemoteCreateTask(data, outcome, reload)
    \/ \E id \in TaskIds, data \in TaskUpdates : UpdateTask(id, data)
    \/ \E id \in CustomerIds : DeleteCustomer(id)
    \/ \E id \in BuilderIds : DeleteBuilder(id)
    \/ \E id \in TaskIds : DeleteTask(id)

\* the remote tables found at start-up
LoadedTables ==
    [documents |-> << [id |-> 1, document_number |-> <<"D","1">>,
                       customer_name |-> NameC, customer_phone |-> Phone123,
                       builder_name |-> BuilderAB, document_type |-> TypeAgreement,
                       status |-> "pending_collection", created_at |-> 0],
                      [id |-> 2, document_number |-> <<"D","2">>,
                       customer_name |-> NameA, customer_phone |-> Phone9,
                       builder_name |-> BuilderB, document_type |-> TypeAgreement,
                       status |-> "pending_collection", created_at |-> 0] >>,
     customers |-> << [id |-> 1, name |-> NameC, phone |-> Phone123],
                      [id |-> 2, name |-> NameA, phone |-> Phone9] >>,
     builders  |-> << [id |-> 1, name |-> BuilderAB] >>,
     tasks     |-> << [id |-> 1, title |-> <<"T">>, priority |-> "medium",
                       status |-> "pending", created_at |-> 0] >>]

\* the remote store is connected and every store's start-up load has
\* succeeded, except the salary store's, which keeps its seeded records
InitRemoteLoaded ==
    /\ isConnected = TRUE
    /\ now = 0
    /\ remote = LoadedTables
    /\ documents = documentsFromRows(LoadedTables)
    /\ customers = customersFromRows(LoadedTables)
    /\ builders = buildersFromRows(LoadedTables)
    /\ tasks = tasksFromRows(LoadedTables)
    /\ ops = 0
    /\ last = [op |-> "none"]
    /\ InitSession
    /\ InitAttendance
    /\ calcInput = [none |-> TRUE]
    /\ InitLoading
    /\ InitGmail
    /\ InitSalary
    /\ apiConfig = [kind |-> "json", enabled |-> TRUE, config |-> "configA"]
    /\ svcConfig = "configA"
    /\ svcIsConnected = TRUE
    /\ initPc = "idle"
    /\ queryPc = "idle"
    /\ query = [connected |-> FALSE, fetches |-> 0, outcome |-> "none", threw |-> FALSE]
    /\ gatewayLog = [loaded |-> {"configA"}, tested |-> {"configA"}]

NextRemoteLoaded ==
    \/ \E id \in DocumentIds : DeleteDocument(id)
    \/ \E id \in CustomerIds : DeleteCustomer(id)
    \/ \E id \in BuilderIds : DeleteBuilder(id)
    \/ \E id \in TaskIds : DeleteTask(id)
    \/ \E id \in SalaryIds : DeleteSalaryRecord(id)
    \/ \E id \in DocumentIds, data \in DocumentUpdates,
          outcome \in GatewayOutcomes, reload \in GatewayOutcomes :
          RemoteUpdateDocument(id, data, outcome, reload)
    \/ \E id \in CustomerIds, data \in CustomerUpdates,
          outcome \in GatewayOutcomes, reload \in GatewayOutcomes :
          RemoteUpdateCustomer(id, data, outcome, reload)
    \/ \E data \in TaskInputs, outcome \in GatewayOutcomes, reload \in GatewayOutcomes :
          RemoteCreateTask(data, outcome, reload)

SpecRemoteLoaded == InitRemoteLoaded /\ [][NextRemoteLoaded]_vars

NextRemoteDocs ==
    \/ \E data \in DocumentInputs, o \in [DocumentSteps -> GatewayOutcomes] :
          RemoteCreateDocument(data, o)
    \/ \E id \in DocumentIds, data \in DocumentUpdates,
          outcome \in GatewayOutcomes, reload \in GatewayOutcomes :
          RemoteUpdateDocument(id, data, outcome, reload)
    \/ \E id \in DocumentIds : DeleteDocument(id)
    \/ \E id \in CustomerIds : DeleteCustomer(id)

SpecRemoteDocs == InitRemote /\ [][NextRemoteDocs]_vars

SpecRemote == InitRemote /\ [][NextRemote]_vars

(***************************************************************************)
(* createCustomer with the remote store active, one step per message: the  *)
(* gateway runs the INSERT, the response starts the reload, the gateway    *)
(* runs the SELECT, and the rows reach loadCustomersFromDatabase, which     *)
(* replaces the list.  Requests of overlapping calls are served, and their *)
(* responses delivered, in any order.                                      *)
(***************************************************************************)
\* what the calls that have returned so far add up to
completedCreates == IF Has(last, "completed") THEN last.completed ELSE 0

failedCalls == IF Has(last, "failed") THEN last.failed ELSE FALSE

returned(failed) ==
    [op |-> "createCustomer", completed |-> completedCreates + 1,
     failed |-> failedCalls \/ failed]

\* createCustomer(data) is called: setLoading(true), the INSERT is sent
BeginCreateCustomer(data) ==
    /\ ops < MaxRemoteOps
    /\ ops' = ops + 1
    /\ isConnected
    /\ inflight' = Append(inflight, [data |-> data, pc |-> "insert", rows |-> <<>>])
    /\ loading' = [loading EXCEPT !["customers"] = TRUE]
    /\ UNCHANGED <<isConnected, now, last, storeVars, authVars, attendanceVars, calcInput, gmailVars,
                   salaryVars, gatewayVars>>

\* the gateway answers the INSERT of call i: on failure the call throws, on
\* success it calls loadCustomersFromDatabase, which sends the SELECT
InsertAnswered(i, outcome) ==
    /\ i \in 1..Len(inflight)
    /\ inflight[i].pc = "insert"
    /\ IF outcome = "success"
       THEN /\ remote' = remoteCreateCustomer(remote, inflight[i].data, "success",
                                              "failure").tables
            /\ inflight' = [inflight EXCEPT ![i].pc = "select"]
            /\ loading' = [loading EXCEPT !["customers"] = TRUE]
            /\ UNCHANGED last
       ELSE /\ inflight' = RemoveAt(inflight, i)
            /\ loading' = finallyBlock(loading, "customers")
            /\ last' = returned(TRUE)
            /\ UNCHANGED remote
    /\ UNCHANGED <<isConnected, now, ops, storeVars, authVars, attendanceVars, calcInput, gmailVars,
                   salaryVars>>
    /\ UNCHANGED <<apiConfig, svcConfig, svcIsConnected, initPc, queryPc, query, gatewayLog>>

\* the gateway runs the SELECT of call i on the table as it is now
SelectServed(i, outcome) ==
    /\ i \in 1..Len(inflight)
    /\ inflight[i].pc = "select"
    /\ inflight' = [inflight EXCEPT ![i].pc = IF outcome = "success" THEN "rows" ELSE "error",
                                    ![i].rows = IF outcome = "success"
                                                THEN customersFromRows(remote) ELSE <<>>]
    /\ UNCHANGED <<isConnected, now, ops, last, storeVars, authVars, attendanceVars, calcInput, gmailVars,
                   loading, salaryVars, gatewayVars>>

\* the response of the SELECT reaches call i: setCustomers(rows) when it
\* succeeded, then the finally blocks of the reload and of the create
ReloadDelivered(i) ==
    /\ i \in 1..Len(inflight)
    /\ inflight[i].pc \in {"rows", "error"}
    /\ customers' = IF inflight[i].pc = "rows" THEN inflight[i].rows ELSE customers
    /\ inflight' = RemoveAt(inflight, i)
    /\ loading' = finallyBlock(loading, "customers")
    /\ last' = returned(inflight[i].pc = "error")
    /\ UNCHANGED <<isConnected, now, ops, documents, builders, tasks, authVars, attendanceVars,
                   calcInput, gmailVars, salaryVars, gatewayVars>>

NextRace ==
    \/ \E data \in CustomerInputs : BeginCreateCustomer(data)
    \/ \E i \in 1..MaxRemoteOps, outcome \in GatewayOutcomes : InsertAnswered(i, outcome)
    \/ \E i \in 1..MaxRemoteOps, outcome \in GatewayOutcomes : SelectServed(i, outcome)
    \/ \E i \in 1..MaxRemoteOps : ReloadDelivered(i)

SpecRace == InitRemote /\ [][NextRace]_vars

(***************************************************************************)
(* GmailProvider.  The handlers of one render close over the isConnected   *)
(* of that render: the fetchMessages that connectGmail awaits reads the    *)
(* value isConnected had when connectGmail was called, whatever            *)
(* setIsConnected was given since.  What gmailApi answers is an input.     *)
(***************************************************************************)
mockMessages ==
    << [id |-> "msg1", isRead |-> FALSE],
       [id |-> "msg2", isRead |-> TRUE],
       [id |-> "msg3", isRead |-> FALSE] >>

\* what gmailApi.getMessages(50) may resolve to
Inboxes == { <<>>, << [id |-> "g1", isRead |-> FALSE] >> }

SignInOutcomes == {"success", "refused", "throws"}

FetchOutcomes == {"messages", "throws"}

MessageIds == {"msg1", "msg3", "g1"}

\* fetchMessages() of the render whose isConnected is closedOver: the list
\* it passes to setMessages
fetchMessages(closedOver, api, inbox) ==
    IF ~closedOver
    THEN mockMessages
    ELSE IF api = "messages" THEN inbox ELSE mockMessages

\* checkSignInStatus(), run once by the mount effect
CheckSignInStatus(enabled, signedIn, api, inbox) ==
    /\ ops = 0
    /\ ops' = ops + 1
    /\ IF ~enabled
       THEN /\ messages' = mockMessages
            /\ UNCHANGED gmailIsConnected
       ELSE /\ gmailIsConnected' = signedIn
            /\ messages' = IF signedIn THEN fetchMessages(gmailIsConnected, api, inbox)
                           ELSE mockMessages
    /\ last' = [op |-> "checkSignInStatus", enabled |-> enabled, signedIn |-> signedIn,
                api |-> api, inbox |-> inbox]
    /\ UNCHANGED <<isConnected, now, storeVars, authVars, attendanceVars, calcInput, loadVars,
                   salaryVars, gatewayVars>>

connectGmail(signIn, api, inbox) ==
    /\ ops < MaxOps
    /\ ops' = ops + 1
    /\ IF signIn = "success"
       THEN /\ gmailIsConnected' = TRUE
            /\ messages' = fetchMessages(gmailIsConnected, api, inbox)
       ELSE /\ messages' = mockMessages
            /\ UNCHANGED gmailIsConnected
    /\ last' = [op |-> "connectGmail", signIn |-> signIn, api |-> api, inbox |-> inbox]
    /\ UNCHANGED <<isConnected, now, storeVars, authVars, attendanceVars, calcInput, loadVars,
                   salaryVars, gatewayVars>>

disconnectGmail(signOut) ==
    /\ ops < MaxOps
    /\ ops' = ops + 1
    /\ IF signOut = "success"
       THEN /\ gmailIsConnected' = FALSE
            /\ messages' = mockMessages
       ELSE UNCHANGED gmailVars
    /\ last' = [op |-> "disconnectGmail", signOut |-> signOut]
    /\ UNCHANGED <<isConnected, now, storeVars, authVars, attendanceVars, calcInput, loadVars,
                   salaryVars, gatewayVars>>

\* fetchMessages() called from the page
FetchMessages(api, inbox) ==
    /\ ops < MaxOps
    /\ ops' = ops + 1
    /\ messages' = fetchMessages(gmailIsConnected, api, inbox)
    /\ last' = [op |-> "fetchMessages", api |-> api, inbox |-> inbox]
    /\ UNCHANGED <<isConnected, now, storeVars, authVars, attendanceVars, calcInput, loadVars,
                   gmailIsConnected, salaryVars, gatewayVars>>

\* markAsRead(messageId): the list is updated whether or not the API call fails
markAsRead(messageId) ==
    /\ ops < MaxOps
    /\ ops' = ops + 1
    /\ messages' = [i \in 1..Len(messages) |->
                       IF messages[i].id = messageId
                       THEN [isRead |-> TRUE] @@ messages[i] ELSE messages[i]]
    /\ last' = [op |-> "markAsRead", messageId |-> messageId]
    /\ UNCHANGED <<isConnected, now, storeVars, authVars, attendanceVars, calcInput, loadVars,
                   gmailIsConnected, salaryVars, gatewayVars>>

NextGmail ==
    \/ \E enabled \in BOOLEAN, signedIn \in BOOLEAN, api \in FetchOutcomes, inbox \in Inboxes :
          CheckSignInStatus(enabled, signedIn, api, inbox)
    \/ \E signIn \in SignInOutcomes, api \in FetchOutcomes, inbox \in Inboxes :
          connectGmail(signIn, api, inbox)
    \/ \E signOut \in GatewayOutcomes : disconnectGmail(signOut)
    \/ \E api \in FetchOutcomes, inbox \in Inboxes : FetchMessages(api, inbox)
    \/ \E messageId \in MessageIds : markAsRead(messageId)

SpecGmail == Init /\ [][NextGmail]_vars

\* operations of every store overlapping, in local and in remote mode
InitLoad == Init \/ InitRemote

NextLoad ==
    \/ \E store \in Stores, kind \in LoadKinds, plan \in NestedPlans :
          StartOperation(store, kind, plan)
    \/ \E store \in Stores : StartReload(store)
    \/ \E i \in 1..MaxLoadOps, outcome \in GatewayOutcomes : Respond(i, outcome)

\* every awaited request is answered and every continuation runs
FairLoad == WF_vars(\E i \in 1..MaxLoadOps, outcome \in GatewayOutcomes : Respond(i, outcome))

SpecLoad == InitLoad /\ [][NextLoad]_vars /\ FairLoad

-----------------------------------------------------------------------------
(* Helpers of the properties *)

RECURSIVE DigitsValue(_)
DigitsValue(s) ==
    IF s = <<>> THEN 0
    ELSE 10 * DigitsValue(SubSeq(s, 1, Len(s) - 1)) + (IndexIn(DigitChars, s[Len(s)]) - 1)

IsDigits(s) == \A i \in 1..Len(s) : IndexIn(DigitChars, s[i]) > 0

SlashPositions(s) == {i \in 1..Len(s) : s[i] = "/"}

Min(S) == CHOOSE x \in S : \A y \in S : x <= y
Max(S) == CHOOSE x \in S : \A y \in S : x >= y

\* PREFIX/YEAR/SEQ, with exactly two slashes
WellFormedNumber(num) == Cardinality(SlashPositions(num)) = 2
PrefixPart(num) == SubSeq(num, 1, Min(SlashPositions(num)) - 1)
YearPart(num) == SubSeq(num, Min(SlashPositions(num)) + 1, Max(SlashPositions(num)) - 1)
SeqPart(num) == SubSeq(num, Max(SlashPositions(num)) + 1, Len(num))

ExpectedPrefix(type) ==
    CASE type = TypeAgreement -> <<"A","G","R","E","E","M","E","N","T">>
      [] type = TypeLeaseDeed -> <<"L","E","A","S","E","D","E","E","D">>
      [] type = TypeSaleDeed -> <<"S","A","L","E","D","E","E","D">>
      [] type = TypeMutation -> <<"M","U","T","A","T","I","O","N">>
      [] type = TypePartitionDeed -> <<"P","A","R","T","I","T","I","O","N","D","E","E","D">>
      [] type = TypeGiftDeed -> <<"G","I","F","T","D","E","E","D">>

UpperCasedName(type) ==
    CASE type = TypeAgreement -> <<"A","G","R","E","E","M","E","N","T">>
      [] type = TypeLeaseDeed -> <<"L","E","A","S","E","_","D","E","E","D">>
      [] type = TypeSaleDeed -> <<"S","A","L","E","_","D","E","E","D">>
      [] type = TypeMutation -> <<"M","U","T","A","T","I","O","N">>
      [] type = TypePartitionDeed -> <<"P","A","R","T","I","T","I","O","N","_","D","E","E","D">>
      [] type = TypeGiftDeed -> <<"G","I","F","T","_","D","E","E","D">>

DocsOfType(type) == {i \in 1..Len(documents) : documents[i].documentType = type}

DocsOfTypeInYear(type, year) ==
    {i \in DocsOfType(type) : YearOfTick(documents[i].createdAt) = year}

CustomersWithPhone(phone) == {i \in 1..Len(customers) : customers[i].phone = phone}

ClaimInputC3 ==
    [customerName |-> <<"A">>, customerPhone |-> <<"1","2","3">>,
     builderName |-> <<"B">>, documentType |-> TypeAgreement]

\* the sum of the amounts of a list, taken over its index set
RECURSIVE SumAt(_, _)
SumAt(items, indices) ==
    IF indices = {} THEN 0
    ELSE LET i == CHOOSE k \in indices : TRUE
         IN  items[i].amount + SumAt(items, indices \ {i})

TotalOf(items) == SumAt(items, DOMAIN items)

ArgOrZero(field) == IF field \in DOMAIN calcInput THEN calcInput[field] ELSE 0

GrantingEntries(u, module, action) ==
    {i \in 1..Len(u.permissions) :
        /\ u.permissions[i].module = module
        /\ u.permissions[i].action = action
        /\ u.permissions[i].granted = TRUE}

-----------------------------------------------------------------------------
(* Properties *)

\* C1: calculateSalary returns gross = baseSalary + sum of the allowance
\* amounts + overtimeHours * overtimeRate + bonus and net = gross - sum of the
\* deduction amounts, for empty lists too.
C1_SalaryArithmetic ==
    last.op = "calculateSalary" =>
        /\ last.ret.gross = calcInput.config.baseSalary
                            + TotalOf(calcInput.config.allowances)
                            + ArgOrZero("overtimeHours") * calcInput.config.overtimeRate
                            + ArgOrZero("bonus")
        /\ last.ret.net = last.ret.gross - TotalOf(calcInput.config.deductions)

\* a salary was computed from no allowance, two deductions, overtime and a bonus
C1_Witness ==
    /\ last.op = "calculateSalary"
    /\ calcInput.config.allowances = <<>>
    /\ Len(calcInput.config.deductions) = 2
    /\ ArgOrZero("overtimeHours") * calcInput.config.overtimeRate > 0
    /\ ArgOrZero("bonus") > 0
    /\ last.ret.net < last.ret.gross

\* C2 (as claimed): when two createDocument calls follow one another with the
\* same non-empty customer phone (and non-empty names), the customer store ends
\* with exactly one customer with that phone, whose documents list holds the
\* ids of both created documents.
C2_SamePhoneOneCustomer ==
    [][ ( /\ last.op = "createDocument"
          /\ last'.op = "createDocument"
          /\ ops' = ops + 1
          /\ last.ret.customerName # <<>>
          /\ last.ret.customerPhone # <<>>
          /\ last'.ret.customerName # <<>>
          /\ last'.ret.customerPhone = last.ret.customerPhone
          /\ last.prePhoneCount <= 1 )
        => ( /\ Cardinality(CustomersWithPhone(last.ret.customerPhone)') = 1
             /\ \A i \in CustomersWithPhone(last.ret.customerPhone)' :
                   /\ arrayIncludes(customers'[i].documents, last.ret.id)
                   /\ arrayIncludes(customers'[i].documents, last'.ret.id) ) ]_vars

\* C3: createDocument({A, 123, B, agreement}) on empty stores returns a document
\* numbered AGREEMENT/<current year>/001 with status pending_collection, and
\* leaves exactly one customer (A, 123) and exactly one builder (B).
C3_FirstDocument ==
    (last.op = "createDocument" /\ last.preEmpty /\ last.data = ClaimInputC3)
    => /\ WellFormedNumber(last.ret.documentNumber)
       /\ PrefixPart(last.ret.documentNumber) = <<"A","G","R","E","E","M","E","N","T">>
       /\ Len(YearPart(last.ret.documentNumber)) = 4
       /\ DigitsValue(YearPart(last.ret.documentNumber)) = YearOfTick(last.at)
       /\ SeqPart(last.ret.documentNumber) = <<"0","0","1">>
       /\ last.ret.status = "pending_collection"
       /\ documents = <<last.ret>>
       /\ Len(customers) = 1
       /\ customers[1].name = <<"A">> /\ customers[1].phone = <<"1","2","3">>
       /\ Len(builders) = 1
       /\ builders[1].name = <<"B">>

C3_Witness ==
    last.op = "createDocument" /\ last.preEmpty /\ last.data = ClaimInputC3

\* C4 (as claimed): generateDocumentNumber(T) is UPPERCASE(T)/Y/(n+1 padded to
\* 3 digits), n being the number of documents of type T of the current year Y.
C4_NumberAsClaimed ==
    \A type \in DocumentTypes :
        generateDocumentNumber(type) =
            UpperCasedName(type) \o <<"/">> \o toString(getFullYear) \o <<"/">>
            \o padStart(toString(Cardinality(DocsOfTypeInYear(type, getFullYear)) + 1),
                        3, "0")

\* C4 (amended): generateDocumentNumber(T) is PREFIX/Y/SEQ where PREFIX is the
\* upper-cased type name without its underscore, Y the current year, and SEQ
\* the decimal n+1, zero-padded to at least 3 digits, n being the number of
\* documents of type T in the store whatever their year.
C4_NumberFormat ==
    \A type \in DocumentTypes :
        LET num == generateDocumentNumber(type) IN
        /\ WellFormedNumber(num)
        /\ PrefixPart(num) = ExpectedPrefix(type)
        /\ IsDigits(YearPart(num))
        /\ DigitsValue(YearPart(num)) = getFullYear
        /\ IsDigits(SeqPart(num))
        /\ DigitsValue(SeqPart(num)) = Cardinality(DocsOfType(type)) + 1
        /\ Len(SeqPart(num)) >= 3
        /\ (Len(SeqPart(num)) > 3 => Head(SeqPart(num)) # "0")

\* a sale_deed document was numbered while an older sale_deed of a previous
\* year was in the store
C4_Witness ==
    /\ last.op = "createDocument"
    /\ last.ret.documentType = TypeSaleDeed
    /\ Len(documents) >= 2
    /\ documents[Len(documents)] = last.ret
    /\ SeqPart(last.ret.documentNumber) = <<"0","0","2">>
    /\ \E i \in DocsOfType(TypeSaleDeed) :
          YearOfTick(documents[i].createdAt) < YearOfTick(last.ret.createdAt)

\* C5 (as claimed): no two documents of the store have the same documentNumber.
C5_UniqueDocumentNumbers ==
    \A i, j \in 1..Len(documents) :
        i # j => documents[i].documentNumber # documents[j].documentNumber

\* C8 (as claimed): no two records of one store have the same id.
C8_UniqueIds ==
    /\ \A i, j \in 1..Len(tasks) : i # j => tasks[i].id # tasks[j].id
    /\ \A i, j \in 1..Len(customers) : i # j => customers[i].id # customers[j].id
    /\ \A i, j \in 1..Len(builders) : i # j => builders[i].id # builders[j].id
    /\ \A i, j \in 1..Len(attendanceRecords) :
          i # j => attendanceRecords[i].id # attendanceRecords[j].id

\* C6: hasPermission is true for every (module, action) of a main_admin; for
\* another signed-in user it is true exactly when the permission list has an
\* entry with that module and action and granted = true; signed out, false.
C6_PermissionCheck ==
    last.op = "hasPermission" =>
        /\ (user = NoUser => last.ret = FALSE)
        /\ (user # NoUser /\ user.role = "main_admin" => last.ret = TRUE)
        /\ (user # NoUser /\ user.role # "main_admin" =>
               (last.ret = TRUE <=> GrantingEntries(user, last.module, last.action) # {}))

\* a user who is no main_admin was refused an action listed with granted = false
C6_Witness ==
    /\ last.op = "hasPermission"
    /\ user # NoUser
    /\ user.role # "main_admin"
    /\ \E i \in 1..Len(user.permissions) :
          /\ user.permissions[i].module = last.module
          /\ user.permissions[i].action = last.action
          /\ ~user.permissions[i].granted
    /\ last.ret = FALSE

\* C7 (as claimed): clockOut at t1 on a record clocked in at t0 with break time
\* br recorded on it stores totalHours = (t1 - t0)/3600 - br/60 and
\* overtime = max(0, totalHours - workingHoursPerDay), for every br >= 0.
C7_ElapsedTime ==
    (last.op = "clockOut" /\ "ret" \in DOMAIN last /\ "breakTime" \in DOMAIN last.pre) =>
        LET elapsed == last.ret.clockOutTime - last.pre.clockInTime
            expected == elapsed - last.pre.breakTime * 60
            workingDay == workingHoursPerDay * UnitsPerHour
        IN  /\ last.ret.totalHours = expected
            /\ last.ret.overtime = IF expected > workingDay THEN expected - workingDay ELSE 0

\* C9 (as claimed): the attendance store holds at most one record per user
\* and calendar day.
C9_OneRecordPerUserDay ==
    \A i, j \in 1..Len(attendanceRecords) :
        i # j => ~( /\ attendanceRecords[i].userId = attendanceRecords[j].userId
                    /\ attendanceRecords[i].date = attendanceRecords[j].date )

\* C10: query never throws; refused when not connected, it returns
\* {success: false, error: 'Database not connected'} without a request; a
\* non-OK response, a network error and an unparsable body each give
\* {success: false, error}; a query that is not refused makes one request.
C10_QueryNeverThrows ==
    /\ query.threw = FALSE
    /\ query.fetches <= 1
    /\ queryPc = "fetching" => query.fetches = 1
    /\ queryPc = "done" =>
          /\ "ret" \in DOMAIN query
          /\ ~query.connected =>
                /\ query.fetches = 0
                /\ query.ret = [success |-> FALSE, error |-> "Database not connected"]
          /\ query.connected => query.fetches = 1
          /\ query.outcome \in {"ok_bad_json", "not_ok", "not_ok_unreadable", "network_error"}
                => /\ query.ret.success = FALSE
                   /\ "error" \in DOMAIN query.ret

\* a query sent while connected ended with a network error
C10_Witness ==
    /\ queryPc = "done"
    /\ query.connected
    /\ query.outcome = "network_error"
    /\ query.fetches = 1

\* C11: the connected flag (of the service and of the provider) is false until
\* a test succeeds, and is true only if some configuration was loaded from the
\* persisted settings by initialize() and the test request issued for it
\* returned success.
C11_ConnectedOnlyAfterTest ==
    /\ gatewayLog.tested \subseteq gatewayLog.loaded
    /\ NoConfig \notin gatewayLog.loaded
    /\ (svcIsConnected \/ isConnected) =>
          /\ gatewayLog.tested # {}
          /\ svcConfig \in gatewayLog.loaded

C11_Witness ==
    /\ svcIsConnected /\ isConnected
    /\ svcConfig \in gatewayLog.tested

\* the list and the remote table a store operation works on
ListOf(op) ==
    CASE op \in {"createCustomer", "updateCustomer", "deleteCustomer"} -> customers
      [] op \in {"createBuilder", "updateBuilder", "deleteBuilder"} -> builders
      [] op \in {"createDocument", "updateDocument", "deleteDocument"} -> documents
      [] op \in {"createTask", "updateTask", "deleteTask"} -> tasks

TableOf(op) ==
    CASE op \in {"createCustomer", "updateCustomer", "deleteCustomer"} -> remote.customers
      [] op \in {"createBuilder", "updateBuilder", "deleteBuilder"} -> remote.builders
      [] op \in {"createDocument", "updateDocument", "deleteDocument"} -> remote.documents
      [] op \in {"createTask", "updateTask", "deleteTask"} -> remote.tasks

ReloadOf(op) ==
    CASE op \in {"createCustomer", "updateCustomer"} -> "getCustomers"
      [] op \in {"createBuilder", "updateBuilder"} -> "getBuilders"
      [] op \in {"createDocument", "updateDocument"} -> "getDocuments"
      [] op \in {"createTask", "updateTask"} -> "getTasks"

CreateOps == {"createCustomer", "createBuilder", "createDocument", "createTask"}

UpdateOps == {"updateCustomer", "updateBuilder", "updateDocument", "updateTask"}

\* C12 (as claimed): in remote mode a successful create reloads the whole list
\* before returning and returns the newly created record, which is the last
\* element of the reloaded list.
C12_CreateReturnsNewRecord ==
    (Has(last, "mode") /\ last.op \in CreateOps /\ ~last.threw) =>
        /\ last.calls[Len(last.calls)].call = ReloadOf(last.op)
        /\ Has(last, "ret")
        /\ last.ret.id = toString(Len(TableOf(last.op)))
        /\ last.ret = ListOf(last.op)[Len(ListOf(last.op))]

WriteCalls == CreateOps \cup UpdateOps

\* the step leaves the list and the remote table of the operation as they were
StoreUntouched(op) ==
    CASE op \in {"createCustomer", "updateCustomer"} ->
            customers' = customers /\ remote'.customers = remote.customers
      [] op \in {"createBuilder", "updateBuilder"} ->
            builders' = builders /\ remote'.builders = remote.builders
      [] op \in {"createDocument", "updateDocument"} ->
            documents' = documents /\ remote'.documents = remote.documents
      [] op \in {"createTask", "updateTask"} ->
            tasks' = tasks /\ remote'.tasks = remote.tasks

\* C13: in remote mode, when the gateway returns success: false for a create or
\* an update, the operation throws, makes no further gateway call (no retry,
\* no reload), leaves the store's list as it was and ends with loading false.
C13_FailedWriteThrows ==
    [][ (ops' = ops + 1 /\ Has(last', "mode")) =>
          \A i \in 1..Len(last'.calls) :
              (last'.calls[i].call \in WriteCalls /\ last'.calls[i].outcome = "failure") =>
                  /\ i = Len(last'.calls)
                  /\ last'.threw
                  /\ ~last'.loading
                  /\ StoreUntouched(last'.calls[i].call) ]_vars

C13_Witness ==
    /\ Has(last, "mode") /\ last.op = "updateBuilder" /\ last.threw
    /\ builders # <<>>

\* C17 (as claimed): with the remote store active every update operation first
\* writes through the gateway and then reloads the list; without it the update
\* makes no gateway call.
C17_UpdateWritesThrough ==
    last.op \in UpdateOps =>
        IF isConnected
        THEN /\ Len(last.calls) >= 1
             /\ last.calls[1].call = last.op
             /\ last.calls[1].outcome = "success" =>
                    /\ Len(last.calls) = 2
                    /\ last.calls[2].call = ReloadOf(last.op)
        ELSE last.calls = <<>>

\* the customers holding a phone, the builders matching a name
CustomersOfDocument(doc) == {i \in 1..Len(customers) : customers[i].phone = doc.customerPhone}

BuildersOfDocument(doc) ==
    {i \in 1..Len(builders) :
        includes(toLowerCase(builders[i].name), toLowerCase(doc.builderName))}

\* what running createDocument for doc leaves, whichever call ran first
LinkedAsIfSerial(doc) ==
    /\ (doc.customerName # <<>> /\ doc.customerPhone # <<>>) =>
          /\ Cardinality(CustomersOfDocument(doc)) = 1
          /\ \A i \in CustomersOfDocument(doc) : arrayIncludes(customers[i].documents, doc.id)
    /\ doc.builderName # <<>> =>
          \E i \in BuildersOfDocument(doc) : arrayIncludes(builders[i].documents, doc.id)

\* C14 (as claimed): two overlapping local creates leave what running them one
\* after the other would leave: the created records have distinct ids, there is
\* at most one customer per phone, and no linked document id is lost.
C14_OverlapIsSerial ==
    /\ last.op = "overlappedCreateCustomers" =>
          customers[Len(customers)].id # customers[Len(customers) - 1].id
    /\ last.op = "overlappedCreateDocuments" =>
          /\ last.first.id # last.second.id
          /\ LinkedAsIfSerial(last.first)
          /\ LinkedAsIfSerial(last.second)

OvertimeAmounts(record) ==
    reduceAmounts(record.overtime)

\* C15 (as claimed): every salary record has grossSalary = baseSalary + sum of
\* allowance amounts + sum of overtime amounts + bonus and netSalary =
\* grossSalary - sum of deduction amounts.
C15_SalaryRecordsConsistent ==
    \A i \in 1..Len(salaryRecords) :
        LET r == salaryRecords[i] IN
        /\ r.grossSalary = r.baseSalary + reduceAmounts(r.allowances)
                           + OvertimeAmounts(r) + r.bonus
        /\ r.netSalary = r.grossSalary - reduceAmounts(r.deductions)

\* the users generatePayroll pays: active, with an active staff configuration
PaidStaff ==
    { users[i].id : i \in { k \in 1..Len(users) :
        /\ users[k].isActive
        /\ \E j \in 1..Len(staffConfigs) :
               staffConfigs[j].userId = users[k].id /\ staffConfigs[j].isActive } }

\* C16: generatePayroll(month, year) appends exactly one draft record with pay
\* period (month, year) for every active user with an active staff
\* configuration and none for anyone else, whatever records exist already, and
\* returns a summary with totalStaff = pendingCount = the number appended and
\* paidCount = 0.
C16_GeneratePayrollAppends ==
    [][ payrollSummaries' # payrollSummaries =>
        LET n == Len(salaryRecords)
            appended == SubSeq(salaryRecords', n + 1, Len(salaryRecords'))
            period == [month |-> last'.month, year |-> last'.year]
        IN  /\ Len(salaryRecords') >= n
            /\ SubSeq(salaryRecords', 1, n) = salaryRecords
            /\ \A u \in PaidStaff :
                   Cardinality({k \in 1..Len(appended) : appended[k].userId = u}) = 1
            /\ \A k \in 1..Len(appended) :
                   /\ appended[k].userId \in PaidStaff
                   /\ appended[k].status = "draft"
                   /\ appended[k].payPeriod = period
            /\ last'.ret.totalStaff = Len(appended)
            /\ last'.ret.pendingCount = Len(appended)
            /\ last'.ret.paidCount = 0 ]_vars

\* generatePayroll has run twice for one period and has duplicated a record
C16_Witness ==
    /\ last.op = "generatePayroll"
    /\ last.ret.totalStaff >= 1
    /\ Len(payrollSummaries) = 2
    /\ payrollSummaries[1].month = payrollSummaries[2].month
    /\ payrollSummaries[1].year = payrollSummaries[2].year
    /\ \E i, j \in 1..Len(salaryRecords) :
           /\ i < j
           /\ salaryRecords[i].userId = salaryRecords[j].userId
           /\ salaryRecords[i].payPeriod = salaryRecords[j].payPeriod
           /\ salaryRecords[i].status = "draft"
           /\ salaryRecords[j].status = "draft"

\* the place of a gateway method in the order createDocument calls them
StepOrder(method) ==
    CASE method = "createDocument" -> 1
      [] method = "createCustomer" -> 2
      [] method = "getCustomers"   -> 3
      [] method = "createBuilder"  -> 4
      [] method = "getBuilders"    -> 5
      [] method = "getDocuments"   -> 6

Called(calls, method) == \E i \in 1..Len(calls) : calls[i].call = method

Failed(calls, method) ==
    \E i \in 1..Len(calls) : calls[i].call = method /\ calls[i].outcome = "failure"

NonEmptyField(data, field) == Has(data, field) /\ data[field] # <<>>

\* C18: with the remote store active a createDocument whose insert succeeds
\* goes on in the order document insert, customer auto-create (when the data
\* names a customer and no customer has the phone), builder auto-create (when
\* no builder matches the builder name), document-list reload; when an
\* auto-create fails the error propagates, the inserted document row stays in
\* the remote table and the in-memory document list is not reloaded.
C18_CreateDocumentOrder ==
    [][ (ops' # ops /\ last'.op = "createDocument" /\ last'.calls # <<>>
         /\ last'.calls[1].outcome = "success") =>
        LET c == last'.calls
            data == last'.data
            n == Len(c)
            autoFailed == Failed(c, "createCustomer") \/ Failed(c, "createBuilder")
        IN  /\ c[1].call = "createDocument"
            /\ \A i, j \in 1..n : i < j => StepOrder(c[i].call) < StepOrder(c[j].call)
            /\ Called(c, "createCustomer") =>
                   /\ NonEmptyField(data, "customerName")
                   /\ NonEmptyField(data, "customerPhone")
                   /\ \A k \in 1..Len(customers) : customers[k].phone # data.customerPhone
            /\ (~Called(c, "createCustomer") /\ NonEmptyField(data, "customerName")
                    /\ NonEmptyField(data, "customerPhone")) =>
                   \E k \in 1..Len(customers) : customers[k].phone = data.customerPhone
            /\ Called(c, "createBuilder") =>
                   /\ NonEmptyField(data, "builderName")
                   /\ getBuilderByNameIndex(data.builderName) = 0
            /\ (~Called(c, "createBuilder") /\ NonEmptyField(data, "builderName")
                    /\ ~Failed(c, "createCustomer")) =>
                   getBuilderByNameIndex(data.builderName) # 0
            /\ Len(remote'.documents) = Len(remote.documents) + 1
            /\ SubSeq(remote'.documents, 1, Len(remote.documents)) = remote.documents
            /\ IF autoFailed
               THEN /\ last'.threw
                    /\ c[n].outcome = "failure"
                    /\ ~Called(c, "getDocuments")
                    /\ documents' = documents
               ELSE /\ ~last'.threw
                    /\ c[n].call = "getDocuments" ]_vars

\* the customer was auto-created, the builder auto-create failed: the document
\* row is in the remote table and the in-memory list was not reloaded
C18_Witness ==
    /\ last.op = "createDocument"
    /\ last.threw
    /\ Len(last.calls) = 4
    /\ last.calls[1] = Call("createDocument", "success")
    /\ last.calls[2] = Call("createCustomer", "success")
    /\ last.calls[4] = Call("createBuilder", "failure")
    /\ remote.documents # <<>>
    /\ documents = <<>>

DeleteOps ==
    {"deleteDocument", "deleteCustomer", "deleteBuilder", "deleteTask", "deleteSalaryRecord"}

\* the in-memory lists of the stores
Lists ==
    [documents |-> documents, customers |-> customers, builders |-> builders,
     tasks |-> tasks, salaryRecords |-> salaryRecords]

ListOfDelete(op) ==
    CASE op = "deleteDocument" -> "documents"
      [] op = "deleteCustomer" -> "customers"
      [] op = "deleteBuilder" -> "builders"
      [] op = "deleteTask" -> "tasks"
      [] op = "deleteSalaryRecord" -> "salaryRecords"

\* what a successful reload makes of the remote tables
Reloaded ==
    [documents |-> documentsFromRows(remote), customers |-> customersFromRows(remote),
     builders |-> buildersFromRows(remote), tasks |-> tasksFromRows(remote)]

ReloadCalls ==
    [documents |-> "getDocuments", customers |-> "getCustomers",
     builders |-> "getBuilders", tasks |-> "getTasks"]

\* C19: a delete removes exactly the records with the given id from its
\* in-memory list and leaves every other record and list alone; it makes no
\* gateway call even with the remote store active, so the remote table is
\* unchanged and the next successful reload of the list, which takes every
\* row of the table, brings the deleted record back.
C19_DeleteIsInMemoryOnly ==
    [][ /\ (ops' # ops /\ last'.op \in DeleteOps) =>
            LET f == ListOfDelete(last'.op)
                kept == { i \in 1..Len(Lists[f]) : Lists[f][i].id # last'.id }
            IN  /\ Len(Lists'[f]) = Cardinality(kept)
                /\ \A i \in kept :
                       Lists'[f][Cardinality({j \in kept : j <= i})] = Lists[f][i]
                /\ \A g \in DOMAIN Lists \ {f} : Lists'[g] = Lists[g]
                /\ last'.calls = <<>>
                /\ remote' = remote
                /\ <<queryPc, query>>' = <<queryPc, query>>
                /\ f \in DOMAIN Reloaded =>
                       \A i \in 1..Len(remote[f]) :
                           \E k \in 1..Len(Reloaded'[f]) :
                               Reloaded'[f][k].id = toString(remote[f][i].id)
        /\ \A g \in DOMAIN Reloaded :
              (ops' # ops /\ Has(last', "mode")
                 /\ Called(last'.calls, ReloadCalls[g])
                 /\ ~Failed(last'.calls, ReloadCalls[g])) =>
                    Lists'[g] = Reloaded'[g] ]_vars

\* with the remote store active a document was deleted from the list and its
\* row is still in the remote table
C19_Witness ==
    /\ isConnected
    /\ last.op = "deleteDocument"
    /\ \E i \in 1..Len(remote.documents) :
           /\ toString(remote.documents[i].id) = last.id
           /\ \A k \in 1..Len(documents) : documents[k].id # last.id

\* the builders whose name contains builderName, letter case aside
MatchingBuilders(builderName) ==
    { i \in 1..Len(builders) :
        includes(toLowerCase(builders[i].name), toLowerCase(builderName)) }

\* C20 (as claimed): a local createDocument with a non-empty builderName
\* creates no builder when the store holds one whose name matches builderName
\* by case-insensitive substring, and appends the new document id to that
\* builder's documents; when none matches it creates exactly one builder,
\* whose documents are the new document id alone.
C20_BuilderLinkedOrCreated ==
    [][ (ops' # ops /\ last'.op = "createDocument" /\ Has(last', "preEmpty")
         /\ last'.ret.builderName # <<>>) =>
        LET doc == last'.ret
            n == Len(builders)
        IN  IF MatchingBuilders(doc.builderName) = {}
            THEN /\ Len(builders') = n + 1
                 /\ SubSeq(builders', 1, n) = builders
                 /\ builders'[n + 1].name = doc.builderName
                 /\ builders'[n + 1].documents = <<doc.id>>
            ELSE /\ Len(builders') = n
                 /\ \E i \in MatchingBuilders(doc.builderName) :
                        builders'[i].documents = Append(builders[i].documents, doc.id) ]_vars

\* C22 (as claimed): each user has at most one staff configuration with
\* isActive true.
C22_OneActiveConfigPerUser ==
    \A i, j \in 1..Len(staffConfigs) :
        (/\ staffConfigs[i].userId = staffConfigs[j].userId
         /\ staffConfigs[i].isActive
         /\ staffConfigs[j].isActive) => i = j

\* C23 (as claimed): the records one generatePayroll call appends have
\* pairwise distinct ids, none of them the id of a record already stored.
C23_PayrollIdsFresh ==
    [][ payrollSummaries' # payrollSummaries =>
        LET n == Len(salaryRecords)
            m == Len(salaryRecords')
        IN  /\ \A i, j \in (n + 1)..m :
                   salaryRecords'[i].id = salaryRecords'[j].id => i = j
            /\ \A i \in (n + 1)..m : \A k \in 1..n :
                   salaryRecords'[i].id # salaryRecords[k].id ]_vars

\* C30 (as claimed): a record becomes paid only after it has been approved, so
\* no update takes a record from draft to paid.
C30_PaidOnlyAfterApproved ==
    [][ (ops' # ops /\ last'.op = "updateSalaryRecord") =>
        \A i \in 1..Len(salaryRecords) :
            ~(salaryRecords[i].status = "draft" /\ salaryRecords'[i].status = "paid") ]_vars

\* C25 (as claimed): every document createDocument produces has status
\* pending_collection when it is added to the store, whatever the input.
C25_CreatedPendingCollection ==
    (last.op = "createDocument" /\ Has(last, "preEmpty")) =>
        /\ last.ret.status = "pending_collection"
        /\ \E i \in 1..Len(documents) : documents[i] = last.ret

\* C29 (as claimed): every document id in a customer's or a builder's
\* documents list is the id of a document in the document store.
C29_NoDanglingBackReferences ==
    LET ids == {documents[i].id : i \in 1..Len(documents)} IN
    /\ \A i \in 1..Len(customers) : \A k \in 1..Len(customers[i].documents) :
           customers[i].documents[k] \in ids
    /\ \A i \in 1..Len(builders) : \A k \in 1..Len(builders[i].documents) :
           builders[i].documents[k] \in ids

\* the records of the signed-in user for today
TodaysRecords ==
    { i \in 1..Len(attendanceRecords) :
        /\ attendanceRecords[i].userId = user.id
        /\ attendanceRecords[i].date = dayOf(clockNow) }

Threw(record, message) == Has(record, "threw") /\ record.threw = message

\* C28 (as claimed): in local mode clockIn by a user who already has a record
\* for today with a clock-in time throws 'Already clocked in today', and
\* clockOut by a user with no record for today that is clocked in and not
\* clocked out throws 'No active clock-in found for today'; either way the
\* attendance list is unchanged and loading ends false.
C28_ClockGuards ==
    [][ (ops' # ops /\ user # NoUser) =>
        /\ (last'.op = "clockIn"
              /\ \E i \in TodaysRecords : Has(attendanceRecords[i], "clockInTime")) =>
                /\ Threw(last', "Already clocked in today")
                /\ attendanceRecords' = attendanceRecords
                /\ ~loading'["attendance"]
        /\ (last'.op = "clockOut"
              /\ ~\E i \in TodaysRecords :
                     /\ Has(attendanceRecords[i], "clockInTime")
                     /\ ~Has(attendanceRecords[i], "clockOutTime")) =>
                /\ Threw(last', "No active clock-in found for today")
                /\ attendanceRecords' = attendanceRecords
                /\ ~loading'["attendance"] ]_vars

\* C21: a validation failure throws and changes nothing: in local mode
\* createSalaryRecord for a user with no active staff configuration throws
\* 'Staff salary configuration not found' and leaves salaryRecords unchanged;
\* createTaskFromTemplate with an unknown template id throws 'Template not
\* found' and leaves tasks unchanged; in both cases loading ends false.
C21_ValidationFailureThrows ==
    [][ /\ (ops' # ops /\ last'.op = "createSalaryRecord"
              /\ ~\E j \in 1..Len(staffConfigs) :
                     staffConfigs[j].userId = last'.userId /\ staffConfigs[j].isActive) =>
                /\ last'.threw
                /\ last'.message = "Staff salary configuration not found"
                /\ salaryRecords' = salaryRecords
                /\ ~loading'["salary"]
        /\ (ops' # ops /\ last'.op = "createTaskFromTemplate"
              /\ \A k \in 1..Len(mockTaskTemplates) :
                     mockTaskTemplates[k].id # last'.templateId) =>
                /\ last'.threw
                /\ last'.message = "Template not found"
                /\ tasks' = tasks
                /\ ~loading'["tasks"] ]_vars

\* createSalaryRecord has thrown for user 2, whose configuration was
\* deactivated, while the task list holds a task made from a template
C21_Witness ==
    /\ last.op = "createSalaryRecord"
    /\ last.threw
    /\ last.userId = "2"
    /\ tasks # <<>>

\* C24: every store operation sets loading when it starts, and whether it
\* returns or throws the store is idle (loading false) once no operation
\* of that store is in flight; when every gateway request is answered no
\* store stays loading forever.
C24_LoadingEnds ==
    /\ [][ops' # ops => \E store \in Stores : /\ store = last'.store
                                              /\ loading'[store]
                                              /\ InFlight(store)']_vars
    /\ [](\A store \in Stores : ~InFlight(store) => ~loading[store])
    /\ \A store \in Stores : loading[store] ~> ~loading[store]

\* a createDocument has thrown and its store is idle again, while an
\* operation of another store is still in flight with its flag set
C24_Witness ==
    /\ last.op = "finished"
    /\ last.threw
    /\ last.store = "documents"
    /\ ~loading["documents"]
    /\ inflight # <<>>
    /\ \E store \in Stores : loading[store]

\* C26: in remote mode, for every interleaving of overlapping creates on
\* one store, reload responses arriving out of order included, once the
\* operations have completed the in-memory list equals the remote table.
C26_ListEqualsTableAfterOverlap ==
    (inflight = <<>> /\ completedCreates >= 2 /\ ~failedCalls) =>
        customers = customersFromRows(remote)

\* C27: after connectGmail completes with a successful sign-in,
\* isConnected is true and messages holds the messages fetched from the
\* Gmail API, not the mock messages; the mock messages are shown only when
\* not connected or when the fetch fails.
C27_ConnectShowsInbox ==
    [][(ops' # ops /\ last'.op = "connectGmail" /\ last'.signIn = "success") =>
          /\ gmailIsConnected'
          /\ last'.api = "messages" => messages' = last'.inbox
          /\ messages' = mockMessages => last'.api = "throws"]_vars

====
